---- MODULE Spec2Model ----
(***************************************************************************)
(* A model of SignalTrader's PriceExtractor                                *)
(* (src/app/Analayzer/detectors/price_extractor.py) and of its             *)
(* MessageHandler (src/app/MessageHandler.py), and of the Telegram manager *)
(* bot (src/app/Providers/telegram/manager_bot).                           *)
(*                                                                         *)
(* Spec and SpecHist run the extractors on a text, SpecThreads runs them   *)
(* in several threads at once, SpecHandler runs the methods of             *)
(* MessageHandler on a message and a configuration.  SpecInput,            *)
(* SpecCalendar, SpecClose and SpecViews run the manager bot: its text     *)
(* input, its history calendar, its close buttons and its auto-updated     *)
(* views.                                                                  *)
(*                                                                         *)
(* A text is a sequence of characters; a character is a one-character      *)
(* string, except that the Persian letters and the white-space characters  *)
(* are written by name ("TEH", "NL", ...).  The regular expressions of the *)
(* source are data (a syntax tree per pattern) and are interpreted by a    *)
(* backtracking matcher with Python's priorities (greedy repetition, left  *)
(* alternative first, leftmost match).                                     *)
(***************************************************************************)
EXTENDS Integers, Sequences, FiniteSets, TLC

VARIABLES
    tables,     \* the rule lists of the class PriceExtractor: each holds its
                \* compiled rules, named by their place in the definition
    input,      \* the argument of the last call
    op,         \* the operation last called ("idle" before the first call)
    result,     \* what the last call returned (or the exception it raised)
    calls,      \* the calls made so far (kept by the history specification)
    config,     \* what the configuration files hold: the command keywords,
                \* the symbol lists and the trading hours
    event,      \* the arguments of the last call of a MessageHandler method,
                \* with what its collaborators answered during the call
    effects,    \* the calls the last MessageHandler method made to its
                \* collaborators (database, MetaTrader), in order
    threads,    \* the extractor calls in progress, one per thread
    user_states,    \* the manager bot: for each user that has one, the
                    \* state of the conversation and its context
    keyboard,       \* for each message the bot sent with buttons, the
                    \* callback_data of the buttons under it now
    active_updates, \* ViewManager.active_updates: for each user on an
                    \* auto-updated view, the view and the message
    tasks           \* the auto-update tasks created so far

vars == <<tables, input, op, result, calls, config, event, effects, threads,
          user_states, keyboard, active_updates, tasks>>

\* What MessageHandler works on.
handlerVars == <<config, event, effects>>

\* What the manager bot works on.
botVars == <<user_states, keyboard, active_updates, tasks>>

(***************************************************************************)
(* Characters.                                                             *)
(***************************************************************************)
LowerLetters ==
    <<"a","b","c","d","e","f","g","h","i","j","k","l","m",
      "n","o","p","q","r","s","t","u","v","w","x","y","z">>

UpperLetters ==
    <<"A","B","C","D","E","F","G","H","I","J","K","L","M",
      "N","O","P","Q","R","S","T","U","V","W","X","Y","Z">>

LowerSet == {LowerLetters[k] : k \in DOMAIN LowerLetters}

UpperSet == {UpperLetters[k] : k \in DOMAIN UpperLetters}

\* The Persian letters the patterns use, by name.
PersianLetters ==
    {"TEH", "YEH", "PEH", "ALEF", "REH", "GAF", "HEH", "DAL", "FEH",
     "HAH", "SEEN", "ZAD", "VAV", "KHEH", "SHEEN"}

DIGITS == <<"0","1","2","3","4","5","6","7","8","9">>

Digit == {DIGITS[k] : k \in DOMAIN DIGITS}

\* \s of a str pattern, as far as the inputs go.
Space == {" ", "NL", "TAB"}

\* \w: letters of any script, digits and the underscore.
WordChar == LowerSet \cup UpperSet \cup PersianLetters \cup Digit \cup {"_"}

IndexOf(seq, c) == CHOOSE k \in DOMAIN seq : seq[k] = c

LowerOf == [c \in UpperSet |-> LowerLetters[IndexOf(UpperLetters, c)]]

UpperOf == [c \in LowerSet |-> UpperLetters[IndexOf(LowerLetters, c)]]

\* str.lower() and str.upper(), one character at a time.
LowerChar(c) == IF c \in UpperSet THEN LowerOf[c] ELSE c

UpperChar(c) == IF c \in LowerSet THEN UpperOf[c] ELSE c

lower(s) == [k \in DOMAIN s |-> LowerChar(s[k])]

upper(s) == [k \in DOMAIN s |-> UpperChar(s[k])]

DigitValOf == [c \in Digit |-> IndexOf(DIGITS, c) - 1]

DigitVal(c) == DigitValOf[c]

(***************************************************************************)
(* Regular expressions as data.                                            *)
(***************************************************************************)
Cls(chars) == [t |-> "cls", s |-> chars, neg |-> FALSE]

NotCls(chars) == [t |-> "cls", s |-> chars, neg |-> TRUE]

Lit(c) == Cls({c})

Cat(a) == [t |-> "seq", a |-> a]

Alt(a) == [t |-> "alt", a |-> a]

\* hi = -1: no upper limit.
Rep(r, lo, hi) == [t |-> "rep", r |-> r, lo |-> lo, hi |-> hi]

Star(r) == Rep(r, 0, -1)

Plus(r) == Rep(r, 1, -1)

Opt(r) == Rep(r, 0, 1)

Grp(n, r) == Cat(<<[t |-> "open", n |-> n], r, [t |-> "close", n |-> n]>>)

WB == [t |-> "wb"]

Word(w) == Cat([k \in DOMAIN w |-> Lit(w[k])])

D == Cls(Digit)

S == Cls(Space)

\* \d+\.\d+
Dec == Cat(<<Plus(D), Lit("."), Plus(D)>>)

\* \d+(?:\.\d+)?
Num == Cat(<<Plus(D), Opt(Cat(<<Lit("."), Plus(D)>>))>>)

\* \d+\.?\d*
Num2 == Cat(<<Plus(D), Opt(Lit(".")), Star(D)>>)

\* \d+\.\d+|\d+
DecOrInt == Alt(<<Dec, Plus(D)>>)

(***************************************************************************)
(* The matcher.  M matches the patterns rs one after the other from        *)
(* position i of x.s and returns the first success in the order in which   *)
(* a backtracking engine finds it.  c holds the groups: c.g[n] is          *)
(* <<start, end>> of group n (<<0, 0>>: the group did not take part).      *)
(***************************************************************************)
NoCaps == [g |-> <<<<0, 0>>, <<0, 0>>>>, o |-> <<0, 0>>]

Fail == [ok |-> FALSE, b |-> 0, e |-> 0, c |-> NoCaps]

\* Under re.IGNORECASE a character is in a class when its lower-case or its
\* upper-case form is.
InCls(r, ch, ic) ==
    LET hit == IF ic THEN LowerChar(ch) \in r.s \/ UpperChar(ch) \in r.s
                     ELSE ch \in r.s
    IN  hit # r.neg

IsBoundary(s, i) ==
    LET before == i > 1 /\ s[i - 1] \in WordChar
        after  == i <= Len(s) /\ s[i] \in WordChar
    IN  before # after

Dec1(r) == [r EXCEPT !.lo = IF r.lo > 0 THEN r.lo - 1 ELSE 0,
                     !.hi = IF r.hi > 0 THEN r.hi - 1 ELSE r.hi]

RECURSIVE M(_, _, _, _)
M(rs, x, i, c) ==
    IF Len(rs) = 0 THEN [ok |-> TRUE, b |-> 0, e |-> i, c |-> c]
    ELSE
    LET r    == Head(rs)
        rest == Tail(rs)
    IN  CASE r.t = "cls" ->
                IF i <= Len(x.s) /\ InCls(r, x.s[i], x.ic)
                THEN M(rest, x, i + 1, c) ELSE Fail
          [] r.t = "wb" ->
                IF IsBoundary(x.s, i) THEN M(rest, x, i, c) ELSE Fail
          [] r.t = "seq" -> M(r.a \o rest, x, i, c)
          [] r.t = "alt" ->
                LET first == M(<<Head(r.a)>> \o rest, x, i, c)
                IN  IF first.ok \/ Len(r.a) = 1 THEN first
                    ELSE M(<<Alt(Tail(r.a))>> \o rest, x, i, c)
          [] r.t = "rep" ->
                LET more == IF r.hi # 0
                            THEN M(<<r.r, Dec1(r)>> \o rest, x, i, c)
                            ELSE Fail
                IN  IF more.ok THEN more
                    ELSE IF r.lo = 0 THEN M(rest, x, i, c) ELSE Fail
          [] r.t = "open" ->
                M(rest, x, i, [c EXCEPT !.o[r.n] = i])
          [] r.t = "close" ->
                M(rest, x, i, [c EXCEPT !.g[r.n] = <<c.o[r.n], i>>])

\* pattern.search from position `from`: the leftmost match (b: where it
\* begins, e: the position after it), or Fail.
RECURSIVE SearchFrom(_, _, _)
SearchFrom(re, x, from) ==
    IF from > Len(x.s) + 1 THEN Fail
    ELSE LET m == M(<<re>>, x, from, NoCaps)
         IN  IF m.ok THEN [m EXCEPT !.b = from]
             ELSE SearchFrom(re, x, from + 1)

Search(re, s, ic) == SearchFrom(re, [s |-> s, ic |-> ic], 1)

\* match.group(n): the text of group n; None is modelled by the empty text
\* (no group of the patterns can match the empty text).
Group(m, s, n) ==
    IF m.c.g[n] = <<0, 0>> THEN <<>>
    ELSE SubSeq(s, m.c.g[n][1], m.c.g[n][2] - 1)

\* re.findall for a pattern with groups 1..ng: the matches from left to
\* right, each the sequence of its groups' texts.
RECURSIVE FindAllFrom(_, _, _, _)
FindAllFrom(re, x, from, ng) ==
    LET m == SearchFrom(re, x, from)
    IN  IF ~m.ok THEN <<>>
        ELSE <<[n \in 1..ng |-> Group(m, x.s, n)]>>
             \o FindAllFrom(re, x, IF m.e > m.b THEN m.e ELSE m.e + 1, ng)

FindAll(re, s, ic, ng) == FindAllFrom(re, [s |-> s, ic |-> ic], 1, ng)

\* findall of a pattern with one group: the list of that group's texts.
FindAll1(re, s, ic) ==
    LET all == FindAll(re, s, ic, 1) IN [k \in DOMAIN all |-> all[k][1]]

(***************************************************************************)
(* Python values.  A float is the decimal m / 10^x in lowest form          *)
(* (x = 0 or m not a multiple of 10), which for the short decimals of the  *)
(* inputs is the float's own equality.  BadFloat marks a float() that      *)
(* raised ValueError.                                                      *)
(***************************************************************************)
None == [k |-> "None"]

Float(v) == [k |-> "float", v |-> v]

List(v) == [k |-> "list", v |-> v]

SetOf(v) == [k |-> "set", v |-> v]

Raise(e) == [k |-> "raise", e |-> e]

BadFloat == [m |-> -1, x |-> 0]

RECURSIVE Normal(_)
Normal(v) == IF v.x > 0 /\ v.m % 10 = 0
             THEN Normal([m |-> v.m \div 10, x |-> v.x - 1]) ELSE v

RECURSIVE IntOf(_)
IntOf(t) == IF Len(t) = 0 THEN 0
            ELSE 10 * IntOf(SubSeq(t, 1, Len(t) - 1)) + DigitVal(t[Len(t)])

\* The texts float() accepts among those the extractors hand it: digits
\* with at most one point.
IsDecimalText(t) ==
    /\ \E k \in DOMAIN t : t[k] \in Digit
    /\ \A k \in DOMAIN t : t[k] \in Digit \cup {"."}
    /\ Cardinality({k \in DOMAIN t : t[k] = "."}) <= 1

\* float(t)
float(t) ==
    IF ~IsDecimalText(t) THEN BadFloat
    ELSE LET ds == SelectSeq(t, LAMBDA ch : ch \in Digit)
             dots == {k \in DOMAIN t : t[k] = "."}
             frac == IF dots = {} THEN 0 ELSE Len(t) - (CHOOSE k \in dots : TRUE)
         IN  Normal([m |-> IntOf(ds), x |-> frac])

floats(ts) == [k \in DOMAIN ts |-> float(ts[k])]

HasBad(vs) == \E k \in DOMAIN vs : vs[k] = BadFloat

One == [m |-> 1, x |-> 0]

\* list(vs): every value kept.
fromkeys_kept(vs) == vs

\* list(dict.fromkeys(vs)): the first occurrence of every value, in order.
RECURSIVE fromkeys(_)
fromkeys(vs) ==
    IF Len(vs) = 0 THEN <<>>
    ELSE LET init == fromkeys(SubSeq(vs, 1, Len(vs) - 1))
             last == vs[Len(vs)]
         IN  IF \E k \in DOMAIN init : init[k] = last THEN init
             ELSE Append(init, last)

\* s.isdigit()
isdigit(t) == Len(t) > 0 /\ \A k \in DOMAIN t : t[k] \in Digit

\* s.strip()
RECURSIVE strip(_)
strip(t) ==
    IF Len(t) > 0 /\ t[1] \in Space THEN strip(Tail(t))
    ELSE IF Len(t) > 0 /\ t[Len(t)] \in Space THEN strip(SubSeq(t, 1, Len(t) - 1))
    ELSE t

\* re.split(r'[seps]+', t): the pieces between the runs of separators,
\* the empty pieces at both ends included.
RECURSIVE SplitFrom(_, _, _, _)
SplitFrom(t, seps, i, piece) ==
    IF i > Len(t) THEN <<piece>>
    ELSE IF t[i] \in seps
    THEN IF i > 1 /\ t[i - 1] \in seps THEN SplitFrom(t, seps, i + 1, piece)
         ELSE <<piece>> \o SplitFrom(t, seps, i + 1, <<>>)
    ELSE SplitFrom(t, seps, i + 1, Append(piece, t[i]))

split(t, seps) == SplitFrom(t, seps, 1, <<>>)

\* The concatenation of a list of lists.
RECURSIVE Concat(_)
Concat(ws) == IF Len(ws) = 0 THEN <<>> ELSE Head(ws) \o Concat(Tail(ws))

StartsWith(t, i, w) ==
    i + Len(w) - 1 <= Len(t) /\ \A k \in DOMAIN w : t[i + k - 1] = w[k]

\* str.replace(old, new)
RECURSIVE ReplaceFrom(_, _, _, _)
ReplaceFrom(t, i, old, new) ==
    IF i > Len(t) THEN <<>>
    ELSE IF StartsWith(t, i, old) THEN new \o ReplaceFrom(t, i + Len(old), old, new)
    ELSE <<t[i]>> \o ReplaceFrom(t, i + 1, old, new)

replace(t, old, new) == ReplaceFrom(t, 1, old, new)

(***************************************************************************)
(* The rule tables of the class.                                           *)
(***************************************************************************)
\* The '@ price' rule first and the general number last.
first_price_patterns_at_first ==
    << Cat(<<Lit("@"), Lit(" "), Grp(1, Dec)>>), Grp(1, Dec), Grp(1, Num) >>

first_price_patterns ==
    << Grp(1, Num),                                   \* (\d+(?:\.\d+)?)
       Grp(1, Dec),                                   \* (\d+\.\d+)
       Cat(<<Lit("@"), Lit(" "), Grp(1, Dec)>>) >>    \* @ (\d+\.\d+)

Us == Cls({"_", "FWLOWLINE"})

Dash == Cat(<<Star(S), Lit("-"), Star(S)>>)

\* Each rule: the pattern, whether it ignores case, the group(s) to return.
second_price_patterns ==
    << [re |-> Cat(<<Grp(1, Num2), Plus(Us), Grp(2, Num2)>>),
        ic |-> FALSE, group |-> <<2>>],
       [re |-> Cat(<<Grp(1, Num2), Star(S), Cls({":", "-"}), Star(S), Grp(2, Num2)>>),
        ic |-> FALSE, group |-> <<2>>],
       [re |-> Cat(<<WB, Num2, Word(<<"/", "/", "/">>), Grp(1, Num2)>>),
        ic |-> FALSE, group |-> <<1>>],
       [re |-> Cat(<<Lit("@"), Num2, Dash, Grp(1, Num2)>>),
        ic |-> FALSE, group |-> <<1>>],
       [re |-> Cat(<<Lit("2"), Opt(Word(<<"n", "d">>)), Plus(S),
                     Word(<<"l", "i", "m", "i", "t">>), Star(S), Lit("@"), Star(S),
                     Grp(1, Num2)>>),
        ic |-> TRUE, group |-> <<1>>],
       [re |-> Cat(<<WB, Num2, Lit("_"), Plus(Lit("_")), Grp(1, Num2)>>),
        ic |-> FALSE, group |-> <<1>>],
       [re |-> Cat(<<Lit("@"), Star(S), Num2, Dash, Grp(1, Num2)>>),
        ic |-> FALSE, group |-> <<1>>],
       [re |-> Alt(<<Cat(<<Lit("@"), Star(S), Num2, Dash, Grp(1, Num2)>>),
                     Cat(<<Lit(":"), Star(S), Num2, Dash, Grp(2, Num2)>>)>>),
        ic |-> FALSE, group |-> <<1, 2>>],
       [re |-> Cat(<<WB, Num2, Dash, Grp(1, Num2)>>),
        ic |-> FALSE, group |-> <<1>>],
       [re |-> Cat(<<WB, Plus(D), WB, Star(S), Lit("VAV"), Star(S), Grp(1, Plus(D)),
                     Star(S), Word(<<"FEH", "REH", "VAV", "SHEEN">>)>>),
        ic |-> FALSE, group |-> <<1>>],
       [re |-> Cat(<<WB, Plus(D), WB, Star(S), Lit("VAV"), Star(S), Grp(1, Plus(D)),
                     Star(S), Word(<<"KHEH", "REH", "YEH", "DAL">>)>>),
        ic |-> FALSE, group |-> <<1>>],
       [re |-> Cat(<<WB, Num2, Lit("/"), Grp(1, Num2)>>),
        ic |-> FALSE, group |-> <<1>>],
       [re |-> Cat(<<Lit("="), Star(S), Grp(1, Num2)>>),
        ic |-> FALSE, group |-> <<1>>],
       [re |-> Cat(<<Dec, Plus(NotCls(Digit)), Grp(1, Dec)>>),
        ic |-> FALSE, group |-> <<1>>],
       [re |-> Cat(<<Grp(1, Num2), Rep(NotCls(Digit), 1, 3), Grp(2, Num2)>>),
        ic |-> FALSE, group |-> <<2>>] >>

(***************************************************************************)
(* extract_first_price                                                     *)
(***************************************************************************)
\* A function body that ran inside try/except Exception: return None.
ExceptNone(r) == IF r.k = "raise" THEN None ELSE r

\* float(text) as a return value: the float, or the ValueError.
ReturnFloat(t) ==
    LET v == float(t) IN IF v = BadFloat THEN Raise("ValueError") ELSE Float(v)

\* The loop over the list _first_price_patterns, from its k-th rule on.
RECURSIVE FirstPriceFrom(_, _, _)
FirstPriceFrom(patterns, k, text) ==
    IF k > Len(patterns) THEN None
    ELSE LET match == FindAll1(first_price_patterns[patterns[k]], text, FALSE)
         IN  IF Len(match) > 0 THEN ReturnFloat(match[1])
             ELSE FirstPriceFrom(patterns, k + 1, text)

US30 == <<"U", "S", "3", "0">>

DJIUSD == <<"D", "J", "I", "U", "S", "D">>

\* message.upper().replace("US30", "DJIUSD"); None has no upper(), and
\* bytes.replace refuses str arguments.
normalize_first(message) ==
    IF message.k = "None" THEN Raise("AttributeError")
    ELSE IF message.k = "bytes" THEN Raise("TypeError")
    ELSE [k |-> "str", s |-> replace(upper(message.s), US30, DJIUSD)]

extract_first_price(message) ==
    LET text == normalize_first(message)
    IN  ExceptNone(IF text.k = "raise" THEN text
                   ELSE FirstPriceFrom(tables.first, 1, text.s))

(***************************************************************************)
(* extract_second_price                                                    *)
(***************************************************************************)
\* The loop over the list _second_price_patterns, from its k-th rule on.
RECURSIVE SecondPriceFrom(_, _, _)
SecondPriceFrom(patterns, k, s) ==
    IF k > Len(patterns) THEN None
    ELSE LET rule  == second_price_patterns[patterns[k]]
             match == Search(rule.re, s, rule.ic)
         IN  IF match.ok
             THEN IF Len(rule.group) = 2
                  THEN LET a == Group(match, s, rule.group[1])
                       IN  ReturnFloat(IF Len(a) > 0 THEN a
                                       ELSE Group(match, s, rule.group[2]))
                  ELSE ReturnFloat(Group(match, s, rule.group[1]))
             ELSE SecondPriceFrom(patterns, k + 1, s)

\* The rules tried from the last one declared to the first.
extract_second_price_last(message) ==
    ExceptNone(IF message.k # "str" THEN Raise("TypeError")
               ELSE SecondPriceFrom([k \in DOMAIN tables.second |->
                                       tables.second[Len(tables.second) + 1 - k]],
                                    1, message.s))

\* pattern.search refuses None and bytes (TypeError).
extract_second_price(message) ==
    ExceptNone(IF message.k # "str" THEN Raise("TypeError")
               ELSE SecondPriceFrom(tables.second, 1, message.s))

(***************************************************************************)
(* extract_stop_loss                                                       *)
(***************************************************************************)
sl_keywords ==
    << Word(<<"s", "l">>),
       Cat(<<Word(<<"s", "t", "o", "p">>), Star(S), Word(<<"l", "o", "s", "s">>)>>),
       Word(<<"s", "t", "o", "p", "l", "o", "s", "s">>),
       Word(<<"s", "t", "o", "p">>),
       Word(<<"ALEF", "SEEN", "TEH", "ALEF", "PEH">>),
       Cat(<<Word(<<"HAH", "DAL">>), Star(S), Word(<<"ZAD", "REH", "REH">>)>>),
       Word(<<"ZAD", "REH", "REH">>),
       Word(<<"HAH", "DAL">>) >>

\* re.VERBOSE: the white space and the comments of the pattern are dropped.
sl_pattern ==
    Cat(<<Alt(sl_keywords), Star(S), Star(Cls({":", "@", "=", "-"})), Star(S),
          Grp(1, Num)>>)

\* A number, with no keyword after it.
sl_fallback_any_number == Grp(1, Num)

sl_fallback ==
    Cat(<<Grp(1, Num), Star(S),
          Alt(<<Word(<<"s", "l">>), Word(<<"s", "t", "o", "p">>)>>)>>)

\* try: return float(t) / except ValueError: return None
FloatOrNone(t) == LET v == float(t) IN IF v = BadFloat THEN None ELSE Float(v)

\* `not message`: None, "" and b"".
Falsy(message) == message.k = "None" \/ Len(message.s) = 0

\* The reversed phrasing consulted before the keyword pattern.
extract_stop_loss_fallback_first(message) ==
    IF Falsy(message) THEN None
    ELSE IF message.k = "bytes" THEN Raise("TypeError")
    ELSE LET text     == lower(message.s)
             fallback == Search(sl_fallback, text, TRUE)
             matches  == FindAll1(sl_pattern, text, TRUE)
         IN  IF fallback.ok THEN FloatOrNone(Group(fallback, text, 1))
             ELSE IF Len(matches) > 0 THEN FloatOrNone(matches[1])
             ELSE None

extract_stop_loss(message) ==
    IF Falsy(message) THEN None
    ELSE IF message.k = "bytes" THEN Raise("TypeError")   \* re.findall(str pattern, bytes)
    ELSE LET text    == lower(message.s)
             matches == FindAll1(sl_pattern, text, TRUE)
         IN  IF Len(matches) > 0 THEN FloatOrNone(matches[1])
             ELSE LET fallback == Search(sl_fallback, text, TRUE)
                  IN  IF fallback.ok THEN FloatOrNone(Group(fallback, text, 1))
                      ELSE None

(***************************************************************************)
(* extract_take_profits                                                    *)
(***************************************************************************)
TP == Word(<<"t", "p">>)

TP1 == Word(<<"t", "p", "1">>)

Take == Word(<<"t", "a", "k", "e">>)

Profit == Word(<<"p", "r", "o", "f", "i", "t">>)

TIPI == Word(<<"TEH", "YEH", " ", "PEH", "YEH">>)

Colon == Cat(<<Star(S), Lit(":"), Star(S)>>)

DashOrColon == Cat(<<Star(S), Cls({"-", ":"}), Star(S)>>)

\* The list tp_patterns of the function (all used with re.IGNORECASE).
tp_patterns ==
    << Cat(<<TP, Star(S), Star(D), Star(S), Opt(Cls({"@", ":", ".", "-"})), Star(S),
             Grp(1, DecOrInt)>>),
       Cat(<<TP, Star(S), Opt(Cat(<<Star(D), Colon>>)), Grp(1, Dec)>>),
       Cat(<<WB, TP, WB, Star(S), Opt(Cls({":", "-", "@", "."})), Star(S),
             Grp(1, Num)>>),
       Cat(<<TP, Colon, Grp(1, Num2)>>),
       Cat(<<TP1, Colon, Grp(1, Num2)>>),
       Cat(<<TP1, Star(S), Star(S), Grp(1, Num2)>>),
       Cat(<<TP, DashOrColon, Grp(1, DecOrInt)>>),
       Cat(<<TP, Star(S), Lit("1"), DashOrColon, Grp(1, DecOrInt)>>),
       Cat(<<Word(<<"c", "h", "e", "c", "k", "p", "o", "i", "n", "t">>), Star(S),
             Lit("1"), Colon, Grp(1, Alt(<<Num2, Word(<<"O", "P", "E", "N">>)>>))>>),
       Cat(<<Take, Profit, Star(S), Lit("1"), Star(S), Lit("="), Star(S),
             Grp(1, DecOrInt)>>),
       Cat(<<Take, Star(S), Profit, Star(S), Lit("1"), Colon, Grp(1, DecOrInt)>>),
       Cat(<<TP, Plus(D), Lit("."), Star(S), Grp(1, Num2)>>),
       Cat(<<TP, Lit("."), Star(S), Grp(1, Num2)>>),
       Cat(<<TP, Lit("."), Grp(1, Num2)>>),
       Cat(<<TIPI, Star(S), Grp(1, Plus(D))>>) >>

\* take\s*profit\s*\d+\s*[-:]\s*(\d+\.\d+|\d+)
tp_takeprofit_pattern ==
    Cat(<<Take, Star(S), Profit, Star(S), Plus(D), DashOrColon, Grp(1, DecOrInt)>>)

\* tp(\d+)\s*[:\-]?\s*(\d+\.\d+|\d+)
tp_2_pattern ==
    Cat(<<TP, Grp(1, Plus(D)), Star(S), Opt(Cls({":", "-"})), Star(S),
          Grp(2, DecOrInt)>>)

PersianSeps == {",", "PCOMMA"} \cup Space

\* تی پی\s*([\d\s,،]+)
persian_tp_pattern ==
    Cat(<<TIPI, Star(S), Grp(1, Plus(Cls(Digit \cup PersianSeps)))>>)

TargetSeps == {"-", "ENDASH", "EMDASH"} \cup Space

\* (?:تارگت|هدف)\s*([\d\-–—\s]+)
target_pattern ==
    Cat(<<Alt(<<Word(<<"TEH", "ALEF", "REH", "GAF", "TEH">>),
                Word(<<"HEH", "DAL", "FEH">>)>>),
          Star(S), Grp(1, Plus(Cls(Digit \cup TargetSeps)))>>)

\* The loop over tp_patterns: float(tp) of every capture but the text '0'.
RECURSIVE PatternTps(_, _, _)
PatternTps(patterns, k, sentence) ==
    IF k > Len(patterns) THEN <<>>
    ELSE LET matches == FindAll1(patterns[k], sentence, TRUE)
         IN  floats(SelectSeq(matches, LAMBDA tp : tp # <<"0">>))
             \o PatternTps(patterns, k + 1, sentence)

\* take profit N: the captures, unfiltered.
TakeprofitTps(sentence) == floats(FindAll1(tp_takeprofit_pattern, sentence, TRUE))

\* TP2, TP3, ...: the second group of every match, unfiltered.
Tp2Tps(sentence) ==
    LET tp_match_2 == FindAll(tp_2_pattern, sentence, TRUE, 2)
    IN  floats([k \in DOMAIN tp_match_2 |-> tp_match_2[k][2]])

Chars(t) == {t[i] : i \in DOMAIN t}

\* [float(tp.strip()) for tp in re.split(r'[,\s\u060c]+', match)
\*  if tp.strip().isdigit() and '/' not in tp]
PersianNumbers(match) ==
    LET kept == SelectSeq(split(match, PersianSeps),
                          LAMBDA tp : isdigit(strip(tp)) /\ "/" \notin Chars(tp))
    IN  floats([j \in DOMAIN kept |-> strip(kept[j])])

\* [float(n) for n in re.split(r'[-\u2013\u2014\s]+', match) if n.strip().isdigit()]
TargetNumbers(match) ==
    floats(SelectSeq(split(match, TargetSeps), LAMBDA n : isdigit(strip(n))))

\* What the rules before the Persian list append to tp_numbers for a sentence.
SentenceTps(sentence) ==
    PatternTps(tp_patterns, 1, sentence) \o TakeprofitTps(sentence) \o Tp2Tps(sentence)

\* persian_tp_match and persian_tp_numbers of a sentence.
PersianMatches(sentence) == FindAll1(persian_tp_pattern, sentence, FALSE)

PersianTps(sentence) ==
    LET persian_tp_match == PersianMatches(sentence)
    IN  Concat([k \in DOMAIN persian_tp_match |-> PersianNumbers(persian_tp_match[k])])

\* What the target rule appends to tp_numbers for a sentence.
TargetTps(sentence) ==
    LET target_matches == FindAll1(target_pattern, sentence, FALSE)
    IN  Concat([k \in DOMAIN target_matches |-> TargetNumbers(target_matches[k])])

\* The end of the function, after the loop.
TpResult(tp_numbers) ==
    IF Len(tp_numbers) = 0 \/ tp_numbers = <<One>> THEN None
    ELSE LET unique == fromkeys(tp_numbers)
         IN  SetOf({unique[k] : k \in DOMAIN unique} \ {One})

\* The loop over the sentences from sentence n on, tp_numbers being the list
\* so far: the function's result, or the exception that leaves the loop.
RECURSIVE TpLoop(_, _, _)
TpLoop(sentences, n, tp_numbers) ==
    IF n > Len(sentences) THEN TpResult(tp_numbers)
    ELSE LET sentence == sentences[n]
             found    == SentenceTps(sentence)
         IN  IF HasBad(found) THEN Raise("ValueError")
             ELSE IF Len(PersianMatches(sentence)) > 0
             THEN List(fromkeys(PersianTps(sentence)))
             ELSE TpLoop(sentences, n + 1,
                         tp_numbers \o found \o TargetTps(sentence))

\* re.split(r'\n+', message) refuses bytes (TypeError).
extract_take_profits(message) ==
    ExceptNone(IF Falsy(message) THEN None
               ELSE IF message.k = "bytes" THEN Raise("TypeError")
               ELSE TpLoop(split(message.s, {"NL"}), 1, <<>>))

(***************************************************************************)
(* The inputs.                                                             *)
(***************************************************************************)
Str(s) == [k |-> "str", s |-> s]

Bytes(s) == [k |-> "bytes", s |-> s]

\* The pieces the generated texts are made of.
Lexemes ==
    << <<"t", "p">>, <<"TEH", "YEH", " ", "PEH", "YEH">>,
       <<"c", "h", "e", "c", "k", "p", "o", "i", "n", "t", " ", "1", ":",
         "O", "P", "E", "N">>,
       <<"0">>, <<"1">>, <<".">>, <<":">>, <<" ">>, <<"NL">> >>

MaxLexemes == 3

Generated ==
    UNION {{Concat([k \in 1..n |-> Lexemes[f[k]]]) : f \in [1..n -> DOMAIN Lexemes]}
           : n \in 0..MaxLexemes}

\* The texts of the specification's scenarios and of the examples the
\* properties name.
Examples ==
    \* 1: BUY EURUSD @1.2500 SL:1.2450
    << <<"B", "U", "Y", " ", "E", "U", "R", "U", "S", "D", " ", "@", "1", ".", "2",
         "5", "0", "0", " ", "S", "L", ":", "1", ".", "2", "4", "5", "0">>,
    \* 2: BUY EURUSD @1.2500\nSL: 1.2450\nTP1: 1.2550\nTP2: 1.2600
       <<"B", "U", "Y", " ", "E", "U", "R", "U", "S", "D", " ", "@", "1", ".", "2",
         "5", "0", "0", "NL", "S", "L", ":", " ", "1", ".", "2", "4", "5", "0", "NL",
         "T", "P", "1", ":", " ", "1", ".", "2", "5", "5", "0", "NL", "T", "P", "2",
         ":", " ", "1", ".", "2", "6", "0", "0">>,
    \* 3: 4220-4224
       <<"4", "2", "2", "0", "-", "4", "2", "2", "4">>,
    \* 4: the Persian stop-loss cue (HAH DAL), then ' 1.2450'
       <<"HAH", "DAL", " ", "1", ".", "2", "4", "5", "0">>,
    \* 5: @ 1.2550
       <<"@", " ", "1", ".", "2", "5", "5", "0">>,
    \* 6: 2 @ 1.5
       <<"2", " ", "@", " ", "1", ".", "5">>,
    \* 7: US30 BUY 1.5
       <<"U", "S", "3", "0", " ", "B", "U", "Y", " ", "1", ".", "5">>,
    \* 8: TP1: 0
       <<"T", "P", "1", ":", " ", "0">>,
    \* 9: tp 0.0
       <<"t", "p", " ", "0", ".", "0">>,
    \* 10: take profit 2: 0
       <<"t", "a", "k", "e", " ", "p", "r", "o", "f", "i", "t", " ", "2", ":", " ",
         "0">>,
    \* 11: checkpoint 1: 1
       <<"c", "h", "e", "c", "k", "p", "o", "i", "n", "t", " ", "1", ":", " ", "1">>,
    \* 12: checkpoint 1: OPEN\ntp 2
       <<"c", "h", "e", "c", "k", "p", "o", "i", "n", "t", " ", "1", ":", " ", "O",
         "P", "E", "N", "NL", "t", "p", " ", "2">>,
    \* 13: tp 2\n, then the Persian take-profit cue (TEH YEH, PEH YEH) and ' 3'
       <<"t", "p", " ", "2", "NL", "TEH", "YEH", " ", "PEH", "YEH", " ", "3">>,
    \* 14: the Persian take-profit cue and ' 3', then \ntp 2
       <<"TEH", "YEH", " ", "PEH", "YEH", " ", "3", "NL", "t", "p", " ", "2">>,
    \* 15: the Persian take-profit cue, then ' 2,2,3'
       <<"TEH", "YEH", " ", "PEH", "YEH", " ", "2", ",", "2", ",", "3">>,
    \* 16: the Persian take-profit cue, then ' 1'
       <<"TEH", "YEH", " ", "PEH", "YEH", " ", "1">>,
    \* 17: the Persian target cue (HEH DAL FEH), then ' 3-4'
       <<"HEH", "DAL", "FEH", " ", "3", "-", "4">>,
    \* 18: three spaces
       <<" ", " ", " ">>,
    \* 19: US30 SL
       <<"U", "S", "3", "0", " ", "S", "L">>,
    \* 20: us30 1.5
       <<"u", "s", "3", "0", " ", "1", ".", "5">>,
    \* 21: 1.5 stop
       <<"1", ".", "5", " ", "s", "t", "o", "p">>,
    \* 22: 3 Stop Loss @ 1 sl 2
       <<"3", " ", "S", "t", "o", "p", " ", "L", "o", "s", "s", " ", "@", " ", "1",
         " ", "s", "l", " ", "2">> >>

\* Python objects that are no text: None and bytes.
NonText == {None, Bytes(<<>>), Bytes(<<"s", "l", " ", "1">>)}

Inputs ==
    {Str(s) : s \in Generated} \cup {Str(Examples[k]) : k \in DOMAIN Examples}
    \cup NonText

(***************************************************************************)
(* The state machine: a caller hands a text to one of the extractors and   *)
(* gets its result (op = "idle": the text is chosen and no extractor was   *)
(* called on it yet).                                                      *)
(***************************************************************************)
\* The lists as the class body leaves them.
ClassTables ==
    [first  |-> [k \in DOMAIN first_price_patterns |-> k],
     second |-> [k \in DOMAIN second_price_patterns |-> k]]

\* No message handled, no thread started.
NoHandler == config = None /\ event = None /\ effects = <<>>

NoThreads == threads = <<>>

\* No user has talked to the manager bot.
NoBot ==
    user_states = <<>> /\ keyboard = <<>> /\ active_updates = <<>> /\ tasks = <<>>

Init ==
    /\ tables = ClassTables
    /\ input \in Inputs
    /\ op = "idle"
    /\ result = None
    /\ calls = <<>>
    /\ NoHandler /\ NoThreads /\ NoBot

\* A call that uses up the rule it tried first.
ExtractFirstPrice_consuming ==
    /\ op = "idle"
    /\ op' = "extract_first_price"
    /\ result' = extract_first_price(input)
    /\ tables' = [tables EXCEPT !.first = IF Len(@) > 0 THEN Tail(@) ELSE @]
    /\ UNCHANGED <<input, calls, handlerVars, threads, botVars>>

ExtractFirstPrice ==
    /\ op = "idle"
    /\ op' = "extract_first_price"
    /\ result' = extract_first_price(input)
    /\ UNCHANGED <<tables, input, calls, handlerVars, threads, botVars>>

ExtractSecondPrice ==
    /\ op = "idle"
    /\ op' = "extract_second_price"
    /\ result' = extract_second_price(input)
    /\ UNCHANGED <<tables, input, calls, handlerVars, threads, botVars>>

ExtractStopLoss ==
    /\ op = "idle"
    /\ op' = "extract_stop_loss"
    /\ result' = extract_stop_loss(input)
    /\ UNCHANGED <<tables, input, calls, handlerVars, threads, botVars>>

ExtractTakeProfits ==
    /\ op = "idle"
    /\ op' = "extract_take_profits"
    /\ result' = extract_take_profits(input)
    /\ UNCHANGED <<tables, input, calls, handlerVars, threads, botVars>>

Next ==
    \/ ExtractFirstPrice
    \/ ExtractSecondPrice
    \/ ExtractStopLoss
    \/ ExtractTakeProfits

Spec == Init /\ [][Next]_vars

(***************************************************************************)
(* Several calls, one after the other, in one process: the finished call   *)
(* is logged and the caller chooses the next text.                         *)
(***************************************************************************)
MaxCalls == 2

\* tp10, 1.5-1, sl 1, None
HistInputs ==
    {Str(<<"t", "p", "1", "0">>), Str(<<"1", ".", "5", "-", "1">>),
     Str(<<"s", "l", " ", "1">>), None}

InitHist ==
    /\ tables = ClassTables
    /\ input \in HistInputs
    /\ op = "idle"
    /\ result = None
    /\ calls = <<>>
    /\ NoHandler /\ NoThreads /\ NoBot

CallAgain(m) ==
    /\ op # "idle"
    /\ Len(calls) < MaxCalls
    /\ calls' = Append(calls, [op |-> op, input |-> input, result |-> result])
    /\ input' = m
    /\ op' = "idle"
    /\ result' = None
    /\ UNCHANGED <<tables, handlerVars, threads, botVars>>

NextHist ==
    \/ ExtractFirstPrice
    \/ ExtractSecondPrice
    \/ ExtractStopLoss
    \/ ExtractTakeProfits
    \/ \E m \in HistInputs : CallAgain(m)

SpecHist == InitHist /\ [][NextHist]_vars

(***************************************************************************)
(* Properties.                                                             *)
(***************************************************************************)
Range(f) == {f[k] : k \in DOMAIN f}

TpCalled == op = "extract_take_profits"

IsCollection(r) == r.k \in {"list", "set"}

\* The elements of a returned list or set.
Elems(r) == IF r.k = "list" THEN Range(r.v) ELSE r.v

Sentences(s) == split(s, {"NL"})

\* Every value some take-profit rule captures and hands to tp_numbers (or
\* to persian_tp_numbers) on some line of the text.
Captured(s) ==
    UNION {Range(SentenceTps(sentence)) \cup Range(PersianTps(sentence))
           \cup Range(TargetTps(sentence)) : sentence \in Range(Sentences(s))}
    \ {BadFloat}

\* Some capture of the text is no decimal.
HasParseFailure(s) == \E sentence \in Range(Sentences(s)) : HasBad(SentenceTps(sentence))

\* Some line of the text carries the Persian take-profit cue.
HasPersianCue(s) ==
    \E sentence \in Range(Sentences(s)) : Len(PersianMatches(sentence)) > 0

\* C1: the collection extract_take_profits returns never contains the
\* sentinel 1.0, on either return path.
C1_NoSentinel == (TpCalled /\ IsCollection(result)) => One \notin Elems(result)

\* C2: extract_take_profits never returns an empty collection (nothing
\* captured, or only the sentinel captured: the result is None).
C2_NeverEmpty == (TpCalled /\ IsCollection(result)) => Elems(result) # {}

\* C3: every non-sentinel value captured by any rule on any line is in the
\* result, Persian cue or not.  Stated for the texts all of whose captures
\* are decimals.
C3_Accumulates ==
    (TpCalled /\ input.k = "str" /\ ~HasParseFailure(input.s))
    => \A v \in Captured(input.s) \ {One} :
          IsCollection(result) /\ v \in Elems(result)

\* C4: no sub-extractor lets an exception through to its caller, whatever
\* the input (None, empty, non-text).
C4_NeverRaises == result.k # "raise"

\* C5: a capture that is no decimal costs only that match: the values the
\* other rules and lines capture are still returned.  Stated for the texts
\* without a Persian cue.
C5_ParseFailureIsLocal ==
    (TpCalled /\ input.k = "str" /\ HasParseFailure(input.s)
        /\ ~HasPersianCue(input.s))
    => \A v \in Captured(input.s) \ {One} :
          IsCollection(result) /\ v \in Elems(result)

\* Two floats are the same number.
RECURSIVE Pow10(_)
Pow10(n) == IF n = 0 THEN 1 ELSE 10 * Pow10(n - 1)

SameNumber(a, b) == a.m * Pow10(b.x) = b.m * Pow10(a.x)

\* C6: the collection extract_take_profits returns holds no number twice:
\* no two places of the list of the Persian path, and no two elements of
\* the set of the other path, are the same number.
C6_NoDuplicates ==
    TpCalled =>
       /\ result.k = "list" =>
             \A i, j \in DOMAIN result.v :
                SameNumber(result.v[i], result.v[j]) => i = j
       /\ result.k = "set" =>
             \A a, b \in result.v : SameNumber(a, b) => a = b

\* A Persian line whose list names a number twice: the list returned is
\* shorter than the list of numbers read.
C6_Witness ==
    /\ TpCalled
    /\ result.k = "list"
    /\ Len(result.v) >= 2
    /\ \E sentence \in Range(Sentences(input.s)) :
          Len(PersianTps(sentence)) > Len(result.v)

\* C7: every element of a take-profit result is strictly positive.
C7_Positive == (TpCalled /\ IsCollection(result)) => \A v \in Elems(result) : v.m > 0

\* The calls made so far, the one just finished included.
AllCalls ==
    IF op = "idle" THEN calls
    ELSE Append(calls, [op |-> op, input |-> input, result |-> result])

RECURSIVE DigitsEnd(_, _)
DigitsEnd(t, i) == IF i < Len(t) /\ t[i + 1] \in Digit THEN DigitsEnd(t, i + 1) ELSE i

\* The leftmost decimal number of t, as text: the leftmost run of digits,
\* with the point and the digits that follow it, if any.
LeftmostNumber(t) ==
    LET b == CHOOSE i \in DOMAIN t :
                 t[i] \in Digit /\ \A j \in 1..(i - 1) : t[j] \notin Digit
        e == DigitsEnd(t, b)
    IN  IF e + 2 <= Len(t) /\ t[e + 1] = "." /\ t[e + 2] \in Digit
        THEN SubSeq(t, b, DigitsEnd(t, e + 2))
        ELSE SubSeq(t, b, e)

\* C9: extract_first_price returns the leftmost decimal number of the
\* upper-cased, alias-replaced text, None when the text has no digit, and
\* 1.25 for 'BUY EURUSD @1.2500 SL:1.2450'.
C9_LeftmostNumber ==
    (op = "extract_first_price" /\ input.k = "str") =>
       LET text == replace(upper(input.s), US30, DJIUSD)
       IN  /\ IF \E i \in DOMAIN text : text[i] \in Digit
              THEN result = Float(float(LeftmostNumber(text)))
              ELSE result = None
           /\ input.s = Examples[1] => result = Float([m |-> 125, x |-> 2])

\* The entry price of the first scenario is found.
C9_Witness ==
    /\ op = "extract_first_price"
    /\ input = Str(Examples[1])
    /\ result = Float([m |-> 125, x |-> 2])

\* C10: whenever the text holds an '@ <decimal>' price, extract_first_price
\* returns the number the '@ price' rule captures.
C10_AtRuleFirst ==
    (op = "extract_first_price" /\ input.k = "str") =>
       LET text == replace(upper(input.s), US30, DJIUSD)
           at   == Search(first_price_patterns[3], text, FALSE)
       IN  at.ok => result = Float(float(Group(at, text, 1)))

\* The text with every spelling of the alias (any letter case) replaced by
\* the canonical code.
RECURSIVE AliasReplacedFrom(_, _)
AliasReplacedFrom(t, i) ==
    IF i > Len(t) THEN <<>>
    ELSE IF i + 3 <= Len(t) /\ upper(SubSeq(t, i, i + 3)) = US30
    THEN DJIUSD \o AliasReplacedFrom(t, i + 4)
    ELSE <<t[i]>> \o AliasReplacedFrom(t, i + 1)

AliasReplaced(t) == AliasReplacedFrom(t, 1)

HasAlias(t) == AliasReplaced(t) # t

\* What the extractor named by o returns for the message m.
Extract(o, m) ==
    CASE o = "extract_first_price"  -> extract_first_price(m)
      [] o = "extract_second_price" -> extract_second_price(m)
      [] o = "extract_stop_loss"    -> extract_stop_loss(m)
      [] o = "extract_take_profits" -> extract_take_profits(m)

\* C11: every extractor sees the alias US30 replaced by its canonical code:
\* for a text that names the alias, each extractor returns what it returns
\* for the text with the alias replaced, so the digits of the alias are
\* neither returned nor part of the match that produces the value.
C11_AliasReplacedEverywhere ==
    (op # "idle" /\ input.k = "str" /\ HasAlias(input.s))
    => result = Extract(op, Str(AliasReplaced(input.s)))

\* The rules of _second_price_patterns that match somewhere in the text.
MatchingSecondRules(s) ==
    {k \in DOMAIN second_price_patterns :
        Search(second_price_patterns[k].re, s, second_price_patterns[k].ic).ok}

\* The text of the capture group a rule declares, for its leftmost match:
\* for a rule that declares two groups, the one that took part in the match.
DeclaredGroup(k, s) ==
    LET rule  == second_price_patterns[k]
        match == Search(rule.re, s, rule.ic)
        taken == {g \in Range(rule.group) : Len(Group(match, s, g)) > 0}
    IN  Group(match, s, CHOOSE g \in taken : \A h \in taken : g <= h)

\* C12: extract_second_price returns the declared capture group of the
\* first rule, in declared order, that matches; None when no rule matches;
\* and 4224.0 for '4220-4224', decided by the second rule.
C12_FirstMatchingRule ==
    (op = "extract_second_price" /\ input.k = "str") =>
       LET matching == MatchingSecondRules(input.s)
       IN  /\ IF matching = {} THEN result = None
              ELSE LET first == CHOOSE k \in matching : \A j \in matching : k <= j
                   IN  result = Float(float(DeclaredGroup(first, input.s)))
           /\ input.s = Examples[3] =>
                 /\ result = Float([m |-> 4224, x |-> 0])
                 /\ 2 \in matching /\ 1 \notin matching

\* A text that two rules match with different captures (the second
\* scenario): the earlier rule decides.
C12_Witness ==
    /\ op = "extract_second_price"
    /\ input = Str(Examples[2])
    /\ \E j, k \in MatchingSecondRules(input.s) :
          /\ j < k
          /\ DeclaredGroup(j, input.s) # DeclaredGroup(k, input.s)
          /\ result = Float(float(DeclaredGroup(j, input.s)))

\* C13: extract_stop_loss returns the number of the leftmost match of the
\* keyword pattern when there is one; otherwise the number of the leftmost
\* match of the reversed phrasing; and None exactly when neither matches.
\* The Persian cue followed by 1.2450 gives 1.245.
C13_KeywordThenFallback ==
    (op = "extract_stop_loss" /\ input.k = "str") =>
       LET text     == lower(input.s)
           keyword  == Search(sl_pattern, text, TRUE)
           reversed == Search(sl_fallback, text, TRUE)
       IN  /\ keyword.ok => result = Float(float(Group(keyword, text, 1)))
           /\ (~keyword.ok /\ reversed.ok)
                 => result = Float(float(Group(reversed, text, 1)))
           /\ result = None <=> (~keyword.ok /\ ~reversed.ok)
           /\ input.s = Examples[4] => result = Float([m |-> 1245, x |-> 3])

\* A text both phrasings match, with different numbers (the first
\* scenario): the keyword pattern decides.
C13_Witness ==
    /\ op = "extract_stop_loss"
    /\ input = Str(Examples[1])
    /\ LET text     == lower(input.s)
           keyword  == Search(sl_pattern, text, TRUE)
           reversed == Search(sl_fallback, text, TRUE)
       IN  /\ keyword.ok /\ reversed.ok
           /\ Group(keyword, text, 1) # Group(reversed, text, 1)
           /\ result = Float(float(Group(keyword, text, 1)))

\* The word w occurs in the text t.
Contains(t, w) == \E i \in DOMAIN t : StartsWith(t, i, w)

\* The text names a stop loss: sl, stop (so stop loss and stoploss too), or
\* one of the Persian words, in any letter case.
HasSlKeyword(t) ==
    \E w \in {<<"s", "l">>, <<"s", "t", "o", "p">>,
              <<"ALEF", "SEEN", "TEH", "ALEF", "PEH">>, <<"HAH", "DAL">>,
              <<"ZAD", "REH", "REH">>} : Contains(lower(t), w)

\* The word take, then profit after any white space, begins at place i.
TakeProfitAt(t, i) ==
    /\ StartsWith(t, i, <<"t", "a", "k", "e">>)
    /\ \E j \in (i + 4)..Len(t) :
          /\ StartsWith(t, j, <<"p", "r", "o", "f", "i", "t">>)
          /\ \A k \in (i + 4)..(j - 1) : t[k] \in Space

\* The text names a take profit: tp, take profit, checkpoint, or one of
\* the Persian words, in any letter case.
HasTpCue(t) ==
    \/ \E w \in {<<"t", "p">>,
                 <<"c", "h", "e", "c", "k", "p", "o", "i", "n", "t">>,
                 <<"TEH", "YEH", " ", "PEH", "YEH">>,
                 <<"TEH", "ALEF", "REH", "GAF", "TEH">>,
                 <<"HEH", "DAL", "FEH">>} : Contains(lower(t), w)
    \/ \E i \in DOMAIN t : TakeProfitAt(lower(t), i)

\* C14: a text without a stop-loss keyword has no stop loss, and a text
\* without a take-profit cue has no take profits, whatever numbers it holds.
C14_FailClosed ==
    /\ (op = "extract_stop_loss" /\ input.k = "str" /\ ~HasSlKeyword(input.s))
          => result = None
    /\ (op = "extract_take_profits" /\ input.k = "str" /\ ~HasTpCue(input.s))
          => result = None

\* A text of numbers and no keyword, handed to extract_stop_loss.
C14_Witness ==
    /\ op = "extract_stop_loss"
    /\ input = Str(Examples[3])
    /\ ~HasSlKeyword(input.s)
    /\ result = None

\* The numbers of a text from place i on, as texts, left to right: every
\* maximal run of digits, with the point and the digits after it, if any.
RECURSIVE NumbersFrom(_, _)
NumbersFrom(t, i) ==
    IF i > Len(t) THEN <<>>
    ELSE IF t[i] \notin Digit THEN NumbersFrom(t, i + 1)
    ELSE LET e == DigitsEnd(t, i)
             f == IF e + 2 <= Len(t) /\ t[e + 1] = "." /\ t[e + 2] \in Digit
                  THEN DigitsEnd(t, e + 2) ELSE e
         IN  <<SubSeq(t, i, f)>> \o NumbersFrom(t, f + 1)

Numbers(t) == NumbersFrom(t, 1)

\* C15: extract_second_price finds nothing in a text of fewer than two
\* numbers, and what it finds is not the leftmost number of the text
\* (stated for the texts whose numbers are all different).
C15_SecondNeedsFirst ==
    (op = "extract_second_price" /\ input.k = "str") =>
       LET numbers == Numbers(input.s)
       IN  /\ Len(numbers) < 2 => result = None
           /\ (/\ result # None
               /\ \A i, j \in DOMAIN numbers :
                     SameNumber(float(numbers[i]), float(numbers[j])) => i = j)
              => result # Float(float(numbers[1]))

(***************************************************************************)
(* MessageHandler (src/app/MessageHandler.py).  A method is modelled by    *)
(* what it returns and by the calls it makes to its collaborators (the     *)
(* database, MetaTrader), given what the collaborators answer.             *)
(***************************************************************************)
Bool(b) == [k |-> "bool", v |-> b]

\* A dict: its keys and the value of each.
Dict(keys, v) == [k |-> "dict", keys |-> keys, v |-> v]

\* d.get(key, default)
Get(d, key, default) == IF key \in d.keys THEN d.v[key] ELSE default

\* A call to a collaborator.
Call(name, args) == [call |-> name, args |-> args]

\* keyword in text
SubstringOf(w, t) == Len(w) = 0 \/ \E i \in DOMAIN t : StartsWith(t, i, w)

get_edit_keywords ==
    IF config.keywords = None THEN <<>>
    ELSE Get(config.keywords, "edit_keywords", <<>>)

get_tp_keywords ==
    IF config.keywords = None THEN <<>>
    ELSE Get(config.keywords, "tp_keywords", <<>>)

get_delete_keywords ==
    IF config.keywords = None THEN <<>>
    ELSE Get(config.keywords, "delete_keywords", <<>>)

get_risk_free_keywords ==
    IF config.keywords = None THEN <<>>
    ELSE Get(config.keywords, "risk_free_keywords", <<>>)

\* The keywords looked for in the text as it was written.
AnyKeywordIn_as_written(keywords, text) ==
    IF text.k # "str" THEN Raise("AttributeError")
    ELSE Bool(\E k \in DOMAIN keywords : SubstringOf(keywords[k], text.s))

\* any(keyword in text.lower() for keyword in keywords), the list being
\* non-empty; None has no lower().
AnyKeywordIn(keywords, text) ==
    IF text.k # "str" THEN Raise("AttributeError")
    ELSE Bool(\E k \in DOMAIN keywords : SubstringOf(keywords[k], lower(text.s)))

\* _handle_last_edit: the calls it makes.
handle_last_edit(text, env) ==
    LET edit_keywords == get_edit_keywords
    IN  IF Len(edit_keywords) = 0 THEN <<>>
        ELSE LET hit == AnyKeywordIn(edit_keywords, text)
             IN  IF hit.k = "raise" THEN <<>>
                 ELSE IF hit.v /\ env.price # None
                 THEN <<Call("Update_last_signal", env.price)>>
                 ELSE <<>>

\* _is_trading_allowed: no hours configured, the clock inside or outside
\* the hours, or an error while reading them.
is_trading_allowed(env) ==
    CASE env.hours = "unset"   -> TRUE
      [] env.hours = "outside" -> FALSE
      [] env.hours = "inside"  -> TRUE
      [] env.hours = "error"   -> TRUE

\* `not x` of a text or None.
Not(x) == x = None \/ (x.k = "str" /\ Len(x.s) = 0)

\* _parse_signal: None for an empty text and for a parser that raises.
parse_signal(text, env) ==
    IF Not(text) THEN None
    ELSE IF env.parsed.k = "raise" THEN None
    ELSE env.parsed

\* Every field required but the stop loss.
validate_signal_data_without_stop_loss(action_type, symbol, first_price, stop_loss) ==
    IF action_type = None THEN FALSE
    ELSE IF first_price = None THEN FALSE
    ELSE IF Not(symbol) THEN FALSE
    ELSE TRUE

validate_signal_data(action_type, symbol, first_price, stop_loss) ==
    IF action_type = None THEN FALSE
    ELSE IF first_price = None THEN FALSE
    ELSE IF stop_loss = None THEN FALSE
    ELSE IF Not(symbol) THEN FALSE
    ELSE TRUE

\* {str(s).upper() for s in a_list}
UpperSetOf(a_list) == {upper(a_list[k]) : k \in DOMAIN a_list}

\* The white list consulted before the black list.
is_symbol_allowed_white_first(symbol) ==
    LET white_list == config.white_list
        black_list == config.black_list
    IN  IF white_list.k = "raise" \/ black_list.k = "raise" THEN Bool(FALSE)
        ELSE IF Len(white_list.v) = 0 /\ Len(black_list.v) = 0 THEN Bool(TRUE)
        ELSE IF symbol.k # "str" THEN Bool(FALSE)
        ELSE IF Len(white_list.v) > 0
        THEN Bool(upper(symbol.s) \in UpperSetOf(white_list.v) \cup Range(white_list.v))
        ELSE Bool(~(upper(symbol.s) \in UpperSetOf(black_list.v) \cup Range(black_list.v)))

\* _is_symbol_allowed: the lists are read first (either read may raise);
\* symbol.upper() is reached when one of the lists is non-empty, and None
\* has no upper(); every exception gives False.
is_symbol_allowed(symbol) ==
    LET white_list == config.white_list
        black_list == config.black_list
    IN  IF white_list.k = "raise" \/ black_list.k = "raise" THEN Bool(FALSE)
        ELSE IF Len(white_list.v) = 0 /\ Len(black_list.v) = 0 THEN Bool(TRUE)
        ELSE IF symbol.k # "str" THEN Bool(FALSE)
        ELSE IF /\ Len(black_list.v) > 0
                /\ \/ upper(symbol.s) \in UpperSetOf(black_list.v)
                   \/ upper(symbol.s) \in Range(black_list.v)
        THEN Bool(FALSE)
        ELSE IF /\ Len(white_list.v) > 0
                /\ upper(symbol.s) \notin UpperSetOf(white_list.v)
                /\ upper(symbol.s) \notin Range(white_list.v)
        THEN Bool(FALSE)
        ELSE Bool(TRUE)

\* _handle_new_signal: the calls it makes.
handle_new_signal(text, env) ==
    LET parsed_signal == parse_signal(text, env)
    IN  IF parsed_signal = None THEN <<>>
        ELSE IF ~validate_signal_data(parsed_signal.action_type, parsed_signal.symbol,
                                      parsed_signal.first_price, parsed_signal.stop_loss)
        THEN <<>>
        ELSE IF ~is_symbol_allowed(parsed_signal.symbol).v THEN <<>>
        ELSE <<Call("Trade", parsed_signal)>>

\* handle_message: the calls it makes.
handle_message(message_type, text, env) ==
    handle_last_edit(text, env)
    \o (IF ~is_trading_allowed(env) THEN <<>>
        ELSE IF message_type = "New" THEN handle_new_signal(text, env)
        ELSE <<>>)

\* The signal deleted as soon as one of its positions is not open.
CloseIfNoneOpen_some_closed(env) ==
    <<Call("Login", None)>>
    \o (IF ~env.login THEN <<>>
        ELSE [k \in DOMAIN env.positions |-> Call("get_position", k)]
             \o (IF \E k \in DOMAIN env.positions : ~env.positions[k]
                 THEN <<Call("delete_signal", None)>>
                 ELSE <<>>))

\* The part of handle_parent_tp after the positions were read: the login,
\* one get_position per position, and delete_signal when none is open.
CloseIfNoneOpen(env) ==
    <<Call("Login", None)>>
    \o (IF ~env.login THEN <<>>
        ELSE [k \in DOMAIN env.positions |-> Call("get_position", k)]
             \o (IF \A k \in DOMAIN env.positions : ~env.positions[k]
                 THEN <<Call("delete_signal", None)>>
                 ELSE <<>>))

\* handle_parent_tp: the calls it makes.  env.signal is what
\* get_signal_by_chat answers (a signal, None, or an exception),
\* env.positions tells for each position of the signal whether MetaTrader
\* still holds it open, env.login whether the login succeeds.
handle_parent_tp(text, env) ==
    LET tp_keywords == get_tp_keywords
    IN  IF Len(tp_keywords) = 0 THEN <<>>
        ELSE LET hit == AnyKeywordIn(tp_keywords, text)
             IN  IF hit.k = "raise" THEN <<>>
                 ELSE IF ~hit.v THEN <<>>
                 ELSE <<Call("get_signal_by_chat", None)>>
                      \o (IF env.signal # "found" THEN <<>>
                          ELSE <<Call("get_positions_by_signalid", None)>>
                               \o (IF Len(env.positions) = 0 THEN <<>>
                                   ELSE CloseIfNoneOpen(env)))

(***************************************************************************)
(* How a method ends.  The outcome of a block of code is None when it ran  *)
(* to its end or returned, and the exception when it raised one.  Ran      *)
(* pairs the calls a block made with its outcome.                          *)
(***************************************************************************)
Ran(made, outcome) == [effects |-> made, outcome |-> outcome]

\* A handler that logs the exception and raises it again.
Caught_reraised(outcome) == outcome

\* try: ... except Exception as e: logger.error(...): whatever the block
\* raised, the method ends normally.
Caught(outcome) == None

\* One block after another: the second runs when the first did not raise.
Then(first, second) ==
    IF first.outcome # None THEN first
    ELSE Ran(first.effects \o second.effects, second.outcome)

\* A call of a MetaTrader function, which answers or raises.
MetaTraderCall(name, args, env) ==
    Ran(<<Call(name, args)>>, IF env.mt = "raise" THEN Raise("Exception") ELSE None)

\* Migrations.get_signal_by_chat followed by what is done with the signal
\* when there is one.
WithSignal(env, rest) ==
    CASE env.signal = "raise" -> Ran(<<Call("get_signal_by_chat", None)>>, Raise("Exception"))
      [] env.signal = "None"  -> Ran(<<Call("get_signal_by_chat", None)>>, None)
      [] env.signal = "found" -> Then(Ran(<<Call("get_signal_by_chat", None)>>, None), rest)

\* The try block of a reply handler behind its keyword test: nothing
\* without keywords, AttributeError for a text that is None, nothing when no
\* keyword is in the text.
OnKeyword(keywords, text, rest) ==
    IF Len(keywords) = 0 THEN Ran(<<>>, None)
    ELSE LET hit == AnyKeywordIn(keywords, text)
         IN  IF hit.k = "raise" THEN Ran(<<>>, hit)
             ELSE IF ~hit.v THEN Ran(<<>>, None)
             ELSE rest

\* The method around its try block.
Method(block) == Ran(block.effects, Caught(block.outcome))

handle_parent_edit(text, env) ==
    Method(OnKeyword(get_edit_keywords, text,
                     IF env.price = None THEN Ran(<<>>, None)
                     ELSE WithSignal(env, MetaTraderCall("Update_signal", env.price, env))))

handle_edit(message_text, env) ==
    Method(IF Not(message_text) THEN Ran(<<>>, None)
           ELSE WithSignal(env,
                  LET parsed_signal == parse_signal(message_text, env)
                  IN  IF parsed_signal = None THEN Ran(<<>>, None)
                      ELSE MetaTraderCall("Update_signal",
                                          <<parsed_signal.take_profits,
                                            parsed_signal.stop_loss>>, env)))

Half == <<"h", "a", "l", "f">>

handle_parent_delete(text, env) ==
    Method(OnKeyword(get_delete_keywords, text,
                     WithSignal(env,
                                IF SubstringOf(Half, lower(text.s))
                                THEN MetaTraderCall("Close_half_signal", None, env)
                                ELSE MetaTraderCall("Delete_signal", None, env))))

handle_delete(env) ==
    Method(WithSignal(env, MetaTraderCall("Delete_signal", None, env)))

handle_parent_risk_free(text, env) ==
    Method(OnKeyword(get_risk_free_keywords, text,
                     MetaTraderCall("RiskFreePositions", None, env)))

\* How _handle_last_edit ends: text.lower() raises for a text that is
\* None, inside the try block of the method.
handle_last_edit_outcome(text, env) ==
    Caught(IF Len(get_edit_keywords) = 0 THEN None
           ELSE LET hit == AnyKeywordIn(get_edit_keywords, text)
                IN  IF hit.k = "raise" THEN hit ELSE None)

\* How handle_message ends.
handle_message_outcome(message_type, text, env) ==
    Caught(handle_last_edit_outcome(text, env))

\* How handle_parent_tp ends.
handle_parent_tp_outcome(text, env) ==
    Caught(IF Len(get_tp_keywords) = 0 THEN None
           ELSE LET hit == AnyKeywordIn(get_tp_keywords, text)
                IN  IF hit.k = "raise" THEN hit
                    ELSE IF hit.v /\ env.signal = "raise" THEN Raise("Exception")
                    ELSE None)

(***************************************************************************)
(* The configurations and the messages MessageHandler is run on.           *)
(***************************************************************************)
TpWord == <<"t", "p">>

Hadaf == <<"HEH", "DAL", "FEH">>

EditWord == <<"e", "d", "i", "t">>

CloseWord == <<"c", "l", "o", "s", "e">>

RiskFree == <<"r", "i", "s", "k", " ", "f", "r", "e", "e">>

\* MessageHandler._keywords: no configuration, an empty one, the keywords
\* of the tests, and an empty keyword list.
KeywordConfigs ==
    {None,
     Dict({}, <<>>),
     Dict({"tp_keywords", "edit_keywords", "delete_keywords", "risk_free_keywords"},
          [tp_keywords |-> <<TpWord, Hadaf>>, edit_keywords |-> <<EditWord>>,
           delete_keywords |-> <<CloseWord>>, risk_free_keywords |-> <<RiskFree>>]),
     Dict({"tp_keywords"}, [tp_keywords |-> <<>>])}

XAU == <<"X", "A", "U">>

\* The white list and the black list of the settings: a list of symbols,
\* or an error while it is read.
SymbolLists ==
    {List(<<>>), List(<<<<"x", "a", "u">>>>), List(<<XAU, <<"E", "u", "r">>>>),
     Raise("Exception")}

Configs ==
    [keywords : KeywordConfigs, white_list : SymbolLists, black_list : SymbolLists]

\* The symbols a parser hands over.
Symbols == {None, Str(<<>>), Str(XAU), Str(<<"x", "a", "u">>), Str(<<"e", "u", "r">>),
            Str(<<"G", "B", "P">>)}

\* 1.5
Price == Float([m |-> 15, x |-> 1])

\* What parse_message answers: nothing, an exception, or the six fields,
\* each found or not.
ParsedSignals ==
    {None, Raise("Exception")}
    \cup [k : {"tuple"}, action_type : {None, Str(<<"B", "U", "Y">>)},
          symbol : Symbols \ {Str(<<"e", "u", "r">>)},
          first_price : {None, Price}, second_price : {None},
          take_profits : {None}, stop_loss : {None, Price}]

\* The texts of the messages: None, the empty text, tp, TP, the Persian
\* keyword, 'edit signal', 'https'.
Texts ==
    {None, Str(<<>>), Str(TpWord), Str(<<"T", "P">>), Str(Hadaf),
     Str(<<"e", "d", "i", "t", " ", "s", "i", "g", "n", "a", "l">>),
     Str(<<"h", "t", "t", "p", "s">>)}

MessageTypes == {"New", "Edited", "Deleted"}

MaxPositions == 2

\* For each position of a signal, whether it is still open.
PositionLists == UNION {[1..n -> BOOLEAN] : n \in 0..MaxPositions}

InitHandler ==
    /\ tables = ClassTables
    /\ input = None
    /\ op = "idle"
    /\ result = None
    /\ calls = <<>>
    /\ NoThreads /\ NoBot
    /\ config \in Configs
    /\ event = None
    /\ effects = <<>>

GetTpKeywords ==
    /\ op = "idle"
    /\ op' = "get_tp_keywords"
    /\ event' = None
    /\ result' = List(get_tp_keywords)
    /\ effects' = <<>>
    /\ UNCHANGED <<tables, input, calls, config, threads, botVars>>

IsSymbolAllowed ==
    /\ op = "idle"
    /\ \E symbol \in Symbols :
          /\ op' = "_is_symbol_allowed"
          /\ event' = [symbol |-> symbol]
          /\ result' = is_symbol_allowed(symbol)
          /\ effects' = <<>>
    /\ UNCHANGED <<tables, input, calls, config, threads, botVars>>

\* What the parser, the price extractor and the clock answer during a call
\* of handle_message.
MessageEnvs ==
    [parsed : ParsedSignals, price : {None, Price},
     hours : {"unset", "inside", "outside", "error"}]

HandleMessage ==
    /\ op = "idle"
    /\ \E message_type \in MessageTypes, text \in Texts, env \in MessageEnvs :
          /\ op' = "handle_message"
          /\ event' = [message_type |-> message_type, text |-> text, env |-> env]
          /\ result' = handle_message_outcome(message_type, text, env)
          /\ effects' = handle_message(message_type, text, env)
    /\ UNCHANGED <<tables, input, calls, config, threads, botVars>>

\* What the database and MetaTrader answer during a call of handle_parent_tp.
TpEnvs ==
    [signal : {"found", "None", "raise"}, positions : PositionLists, login : BOOLEAN]

HandleParentTp ==
    /\ op = "idle"
    /\ \E text \in Texts, env \in TpEnvs :
          /\ op' = "handle_parent_tp"
          /\ event' = [text |-> text, env |-> env]
          /\ result' = handle_parent_tp_outcome(text, env)
          /\ effects' = handle_parent_tp(text, env)
    /\ UNCHANGED <<tables, input, calls, config, threads, botVars>>

\* The texts of the replies: those of the messages, 'close', 'Close Half'
\* and 'risk free'.
ReplyTexts ==
    Texts \cup {Str(CloseWord),
                Str(<<"C", "l", "o", "s", "e", " ", "H", "a", "l", "f">>),
                Str(RiskFree)}

\* What parse_message answers for an edited message: nothing, an
\* exception, or a complete signal.
EditedSignals ==
    {p \in ParsedSignals :
        p.k = "tuple" => /\ p.action_type # None /\ p.symbol = Str(XAU)
                         /\ p.first_price # None /\ p.stop_loss # None}

Found == {"found", "None", "raise"}

Answers == {"ok", "raise"}

\* The method of the given name was called with these arguments and ended
\* as `ran` tells.
Handled(name, args, ran) ==
    /\ op' = name
    /\ event' = args
    /\ result' = ran.outcome
    /\ effects' = ran.effects

HandleParentEdit ==
    /\ op = "idle"
    /\ \E text \in ReplyTexts,
          env \in [signal : Found, price : {None, Price}, mt : Answers] :
          Handled("handle_parent_edit", [text |-> text, env |-> env],
                  handle_parent_edit(text, env))
    /\ UNCHANGED <<tables, input, calls, config, threads, botVars>>

HandleEdit ==
    /\ op = "idle"
    /\ \E text \in ReplyTexts,
          env \in [signal : Found, parsed : EditedSignals, mt : Answers] :
          Handled("handle_edit", [text |-> text, env |-> env],
                  handle_edit(text, env))
    /\ UNCHANGED <<tables, input, calls, config, threads, botVars>>

HandleParentDelete ==
    /\ op = "idle"
    /\ \E text \in ReplyTexts, env \in [signal : Found, mt : Answers] :
          Handled("handle_parent_delete", [text |-> text, env |-> env],
                  handle_parent_delete(text, env))
    /\ UNCHANGED <<tables, input, calls, config, threads, botVars>>

HandleDelete ==
    /\ op = "idle"
    /\ \E env \in [signal : Found, mt : Answers] :
          Handled("handle_delete", [text |-> None, env |-> env],
                  handle_delete(env))
    /\ UNCHANGED <<tables, input, calls, config, threads, botVars>>

HandleParentRiskFree ==
    /\ op = "idle"
    /\ \E text \in ReplyTexts, env \in [mt : Answers] :
          Handled("handle_parent_risk_free", [text |-> text, env |-> env],
                  handle_parent_risk_free(text, env))
    /\ UNCHANGED <<tables, input, calls, config, threads, botVars>>

NextHandler ==
    \/ GetTpKeywords
    \/ IsSymbolAllowed
    \/ HandleMessage
    \/ HandleParentTp
    \/ HandleParentEdit
    \/ HandleEdit
    \/ HandleParentDelete
    \/ HandleDelete
    \/ HandleParentRiskFree

SpecHandler == InitHandler /\ [][NextHandler]_vars

(***************************************************************************)
(* Properties of MessageHandler.                                           *)
(***************************************************************************)
\* The calls of the last method to the collaborator of the given name.
CallsTo(name) == SelectSeq(effects, LAMBDA c : c.call = name)

\* The symbol is named by the list, letter case ignored.
Listed(symbol, a_list) ==
    \E k \in DOMAIN a_list : upper(a_list[k]) = upper(symbol)

\* The lists can be read, the symbol is not on the black list, and it is
\* on the white list when there is one.
Accepted(symbol) ==
    /\ config.white_list.k = "list" /\ config.black_list.k = "list"
    /\ ~Listed(symbol, config.black_list.v)
    /\ config.white_list.v = <<>> \/ Listed(symbol, config.white_list.v)

\* C16: handling a message requests at most one trade, and requests it only
\* for a New message with a non-empty text whose parsed signal has an
\* action, an entry price, a stop loss and a non-empty symbol the lists
\* accept; the trade is requested with the parsed fields.
C16_TradeOnlyWhenValid ==
    op = "handle_message" =>
       LET trades == CallsTo("Trade")
           parsed == event.env.parsed
       IN  /\ Len(trades) <= 1
           /\ Len(trades) = 1 =>
                 /\ event.message_type = "New"
                 /\ event.text.k = "str" /\ Len(event.text.s) > 0
                 /\ parsed.k = "tuple"
                 /\ parsed.action_type # None
                 /\ parsed.first_price # None
                 /\ parsed.stop_loss # None
                 /\ parsed.symbol.k = "str" /\ Len(parsed.symbol.s) > 0
                 /\ Accepted(parsed.symbol.s)
                 /\ trades[1].args = parsed

\* A trade requested for a symbol the white list names in another letter
\* case, a black list being configured too.
C16_Witness ==
    /\ op = "handle_message"
    /\ Len(CallsTo("Trade")) = 1
    /\ config.white_list.k = "list" /\ config.black_list.k = "list"
    /\ Len(config.black_list.v) > 0
    /\ event.env.parsed.symbol.s \notin Range(config.white_list.v)

\* The reply text is a take-profit command: keywords are configured and the
\* lower-cased text contains one of them.
Recognised(text) ==
    /\ config.keywords # None
    /\ "tp_keywords" \in config.keywords.keys
    /\ text.k = "str"
    /\ \E k \in DOMAIN config.keywords.v.tp_keywords :
          Contains(lower(text.s), config.keywords.v.tp_keywords[k])

\* The keywords the tests expect are configured.
TestKeywords ==
    /\ config.keywords # None
    /\ "tp_keywords" \in config.keywords.keys
    /\ config.keywords.v.tp_keywords = <<TpWord, Hadaf>>

C19_BlackListFirst ==
    (/\ op = "_is_symbol_allowed"
     /\ config.white_list.k = "list" /\ config.black_list.k = "list") =>
       /\ event.symbol.k = "str" => result = Bool(Accepted(event.symbol.s))
       /\ (event.symbol.k = "str" /\ Listed(event.symbol.s, config.black_list.v))
             => result = Bool(FALSE)
       /\ (config.white_list.v = <<>> /\ config.black_list.v = <<>>)
             => result = Bool(TRUE)

\* A symbol on both lists, in another letter case than the entries: it is
\* rejected.
C19_Witness ==
    /\ op = "_is_symbol_allowed"
    /\ config.white_list.k = "list" /\ config.black_list.k = "list"
    /\ event.symbol.k = "str"
    /\ Listed(event.symbol.s, config.white_list.v)
    /\ Listed(event.symbol.s, config.black_list.v)
    /\ event.symbol.s \notin Range(config.white_list.v)
    /\ event.symbol.s \notin Range(config.black_list.v)
    /\ result = Bool(FALSE)

\* C20: when reading one of the lists raises an error, the symbol is
\* allowed.
C20_AllowedOnError ==
    (/\ op = "_is_symbol_allowed"
     /\ config.white_list.k = "raise" \/ config.black_list.k = "raise")
    => result = Bool(TRUE)

(***************************************************************************)
(* Concurrent extractor calls: each thread runs one call at a time, and a  *)
(* call of extract_first_price or extract_second_price reads the rule list *)
(* of the class once per turn of its loop, the other threads running       *)
(* between two turns.                                                      *)
(***************************************************************************)
MaxThreads == 2

Threads == 1..MaxThreads

Extractors ==
    {"extract_first_price", "extract_second_price", "extract_stop_loss",
     "extract_take_profits"}

\* 1.5-1, tp10, None
ThreadInputs == {Str(<<"1", ".", "5", "-", "1">>), Str(<<"t", "p", "1", "0">>), None}

\* A thread that runs no call.
Idle ==
    [pc |-> "idle", op |-> "none", input |-> None, text |-> None, k |-> 0,
     result |-> None]

InitThreads ==
    /\ tables = ClassTables
    /\ input = None
    /\ op = "idle"
    /\ result = None
    /\ calls = <<>>
    /\ NoHandler /\ NoBot
    /\ threads = [t \in Threads |-> Idle]

\* The call has returned r (an exception having become None).
Done(th, r) == [th EXCEPT !.pc = "done", !.result = ExceptNone(r)]

\* A thread calls an extractor; extract_first_price normalises the text
\* before its loop.
Begin(t) ==
    /\ threads[t].pc = "idle"
    /\ \E o \in Extractors, m \in ThreadInputs :
          threads' = [threads EXCEPT ![t] =
                         [pc |-> "running", op |-> o, input |-> m,
                          text |-> IF o = "extract_first_price"
                                   THEN normalize_first(m) ELSE m,
                          k |-> 1, result |-> None]]
    /\ UNCHANGED <<tables, input, op, result, calls, handlerVars, botVars>>

\* One turn of `for pattern in PriceExtractor._first_price_patterns`.
FirstPriceTurn(th) ==
    IF th.text.k = "raise" THEN Done(th, th.text)
    ELSE IF th.k > Len(tables.first) THEN Done(th, None)
    ELSE LET match == FindAll1(first_price_patterns[tables.first[th.k]],
                               th.text.s, FALSE)
         IN  IF Len(match) > 0 THEN Done(th, ReturnFloat(match[1]))
             ELSE [th EXCEPT !.k = @ + 1]

\* One turn of `for pattern, group in PriceExtractor._second_price_patterns`.
SecondPriceTurn(th) ==
    IF th.text.k # "str" THEN Done(th, Raise("TypeError"))
    ELSE IF th.k > Len(tables.second) THEN Done(th, None)
    ELSE LET found == SecondPriceFrom(<<tables.second[th.k]>>, 1, th.text.s)
             rule  == second_price_patterns[tables.second[th.k]]
         IN  IF Search(rule.re, th.text.s, rule.ic).ok THEN Done(th, found)
             ELSE [th EXCEPT !.k = @ + 1]

\* A turn that takes the rule it tried off the list of the class.
TryRule_consuming(t) ==
    /\ threads[t].pc = "running"
    /\ threads[t].op \in {"extract_first_price", "extract_second_price"}
    /\ threads' = [threads EXCEPT ![t] =
                      IF @.op = "extract_first_price" THEN FirstPriceTurn(@)
                      ELSE SecondPriceTurn(@)]
    /\ tables' = IF threads[t].op = "extract_first_price" /\ Len(tables.first) > 0
                 THEN [tables EXCEPT !.first = Tail(@)] ELSE tables
    /\ UNCHANGED <<input, op, result, calls, handlerVars, botVars>>

\* A thread makes one turn of the loop of its call.
TryRule(t) ==
    /\ threads[t].pc = "running"
    /\ threads[t].op \in {"extract_first_price", "extract_second_price"}
    /\ threads' = [threads EXCEPT ![t] =
                      IF @.op = "extract_first_price" THEN FirstPriceTurn(@)
                      ELSE SecondPriceTurn(@)]
    /\ UNCHANGED <<tables, input, op, result, calls, handlerVars, botVars>>

\* extract_stop_loss and extract_take_profits build their patterns in the
\* call and read nothing of the class.
RunLocal(t) ==
    /\ threads[t].pc = "running"
    /\ threads[t].op \in {"extract_stop_loss", "extract_take_profits"}
    /\ threads' = [threads EXCEPT ![t] =
                      [pc |-> "done", op |-> @.op, input |-> @.input,
                       text |-> @.text, k |-> @.k,
                       result |-> IF @.op = "extract_stop_loss"
                                  THEN extract_stop_loss(@.input)
                                  ELSE extract_take_profits(@.input)]]
    /\ UNCHANGED <<tables, input, op, result, calls, handlerVars, botVars>>

\* The caller takes the result; the thread is free for another call.
Return(t) ==
    /\ threads[t].pc = "done"
    /\ threads' = [threads EXCEPT ![t] = Idle]
    /\ UNCHANGED <<tables, input, op, result, calls, handlerVars, botVars>>

NextThreads ==
    \E t \in Threads :
       \/ Begin(t)
       \/ TryRule(t)
       \/ RunLocal(t)
       \/ Return(t)

SpecThreads == InitThreads /\ [][NextThreads]_vars

\* C17: the rule lists of the class stay as the class body defines them,
\* and every call that has returned, whatever the other threads did
\* meanwhile, returned what the extractor returns for its text when it
\* runs alone.
C17_TablesNeverWritten ==
    /\ tables = ClassTables
    /\ \A t \in Threads :
          threads[t].pc = "done"
             => threads[t].result = Extract(threads[t].op, threads[t].input)

\* Two calls of extract_second_price in progress at different places of
\* the rule list, after a third call has found a value.
C17_Witness ==
    \E t, u \in Threads :
       /\ t # u
       /\ threads[t].pc = "done"
       /\ threads[t].op = "extract_second_price"
       /\ threads[t].result # None
       /\ threads[u].pc = "running"
       /\ threads[u].op \in {"extract_first_price", "extract_second_price"}
       /\ threads[u].k > 1

\* C21: handle_parent_tp deletes the signal at most once, and only when the
\* reply is recognised, the signal is found, it has positions, the login
\* succeeded and none of the positions is open; with a position still open
\* nothing is deleted.
C21_CloseOnlyWhenNoneOpen ==
    op = "handle_parent_tp" =>
       LET closes == CallsTo("delete_signal")
           env    == event.env
       IN  /\ Len(closes) <= 1
           /\ Len(closes) = 1 =>
                 /\ Recognised(event.text)
                 /\ env.signal = "found"
                 /\ Len(env.positions) > 0
                 /\ env.login
                 /\ \A k \in DOMAIN env.positions : ~env.positions[k]
           /\ (\E k \in DOMAIN env.positions : env.positions[k])
                 => Len(closes) = 0

\* A recognised reply to a signal with one position open and one not: both
\* are looked at and nothing is deleted.
C21_Witness ==
    /\ op = "handle_parent_tp"
    /\ Len(CallsTo("get_position")) = 2
    /\ event.env.positions = <<FALSE, TRUE>>
    /\ Len(CallsTo("delete_signal")) = 0

\* C23: outside the configured trading hours handle_message calls neither
\* Trade nor Update_last_signal; with no hours configured a valid New
\* signal is traded.
C23_NothingOutsideHours ==
    op = "handle_message" =>
       /\ event.env.hours = "outside"
             => /\ Len(CallsTo("Trade")) = 0
                /\ Len(CallsTo("Update_last_signal")) = 0
       /\ (/\ event.env.hours = "unset"
           /\ event.message_type = "New"
           /\ event.text.k = "str" /\ Len(event.text.s) > 0
           /\ event.env.parsed.k = "tuple"
           /\ validate_signal_data(event.env.parsed.action_type,
                                   event.env.parsed.symbol,
                                   event.env.parsed.first_price,
                                   event.env.parsed.stop_loss)
           /\ Accepted(event.env.parsed.symbol.s))
          => Len(CallsTo("Trade")) = 1

EntryPoints ==
    {"handle_message", "handle_parent_edit", "handle_edit", "handle_parent_delete",
     "handle_delete", "handle_parent_risk_free", "handle_parent_tp"}

\* C22: no public entry point of MessageHandler ends with an exception,
\* whatever the text and whatever the collaborators answer or raise; and
\* when reading the trading hours fails, a valid New signal is traded as it
\* is when no hours are configured.
C22_NoExceptionEscapes ==
    /\ op \in EntryPoints => result = None
    /\ (op = "handle_message" /\ event.env.hours = "error")
          => /\ is_trading_allowed(event.env)
             /\ effects = handle_message(event.message_type, event.text,
                                         [event.env EXCEPT !.hours = "unset"])

\* A MetaTrader function raised inside handle_parent_delete after the call
\* was made, and the method ended normally.
C22_Witness ==
    /\ op = "handle_parent_delete"
    /\ event.env.mt = "raise"
    /\ Len(CallsTo("Close_half_signal")) = 1
    /\ result = None

(***************************************************************************)
(* The Telegram manager bot (src/app/Providers/telegram/manager_bot).      *)
(* A dict is a function from its keys to their values; user_states maps    *)
(* each user that has one to a dict with the keys "state" and "context".   *)
(***************************************************************************)
\* d.get(key, default)
GetOr(d, key, default) == IF key \in DOMAIN d THEN d[key] ELSE default

\* d[key] = value
Put(d, key, value) ==
    [x \in DOMAIN d \cup {key} |-> IF x = key THEN value ELSE d[x]]

\* d.pop(key, None)
Pop(d, key) == [x \in DOMAIN d \ {key} |-> d[x]]

\* self.user_states[user_id]["state"] = state
SetState(states, user_id, state) ==
    Put(states, user_id, Put(states[user_id], "state", state))

\* self.user_states.get(user_id, {}).get("state"); None is written "None".
StateOf(states, user_id) == GetOr(GetOr(states, user_id, <<>>), "state", "None")

\* What a handler of the bot leaves: the user states, the calls it made
\* (MetaTrader, Telegram), and the handler that took the input.
Out(states, made, by) == [user_states |-> states, effects |-> made, by |-> by]

Reply(what) == Call("reply_text", what)

\* str.strip()
RECURSIVE LStrip(_)
LStrip(t) == IF Len(t) > 0 /\ t[1] \in Space THEN LStrip(Tail(t)) ELSE t

RECURSIVE RStrip(_)
RStrip(t) ==
    IF Len(t) > 0 /\ t[Len(t)] \in Space THEN RStrip(SubSeq(t, 1, Len(t) - 1)) ELSE t

Strip(t) == LStrip(RStrip(t))

Signs == {"+", "-"}

\* The text without its sign.
Unsigned(t) == IF Len(t) > 0 /\ t[1] \in Signs THEN Tail(t) ELSE t

\* Where the exponent mark of the text is (0 when it has none).
ExponentAt(t) ==
    IF \E k \in DOMAIN t : t[k] \in {"e", "E"}
    THEN CHOOSE k \in DOMAIN t : t[k] \in {"e", "E"} /\ \A j \in 1..(k - 1) : t[j] \notin {"e", "E"}
    ELSE 0

Mantissa(t) == IF ExponentAt(t) = 0 THEN t ELSE SubSeq(t, 1, ExponentAt(t) - 1)

Exponent(t) == IF ExponentAt(t) = 0 THEN <<>> ELSE SubSeq(t, ExponentAt(t) + 1, Len(t))

IsDigits(t) == Len(t) > 0 /\ \A k \in DOMAIN t : t[k] \in Digit

\* A decimal numeral: sign, digits with at most one point, and an exponent
\* if any.
IsNumeral(t) ==
    LET u == Unsigned(t)
    IN  /\ IsDecimalText(Mantissa(u))
        /\ ExponentAt(u) # 0 => IsDigits(Unsigned(Exponent(u)))

NaN == <<"n", "a", "n">>

Infinities == {<<"i", "n", "f">>, <<"i", "n", "f", "i", "n", "i", "t", "y">>}

\* m / 10^x with the exponent e applied.
Scaled(v, e) ==
    IF e >= v.x THEN [m |-> v.m * Pow10(e - v.x), x |-> 0]
    ELSE Normal([m |-> v.m, x |-> v.x - e])

\* float(text) of a str without underscores: white space around the text
\* is dropped; nan, inf and infinity are read in any case and with a sign;
\* any other text than a decimal numeral raises ValueError.
python_float(text) ==
    LET t == Strip(text)
        u == Unsigned(t)
        negative == Len(t) > 0 /\ t[1] = "-"
    IN  IF lower(u) = NaN THEN Float("nan")
        ELSE IF lower(u) \in Infinities THEN Float(IF negative THEN "-inf" ELSE "inf")
        ELSE IF ~IsNumeral(t) THEN Raise("ValueError")
        ELSE LET v == float(Mantissa(u))
                 e == Exponent(u)
                 w == IF e = <<>> THEN v
                      ELSE IF e[1] = "-" THEN Normal([m |-> v.m, x |-> v.x + IntOf(Unsigned(e))])
                      ELSE Scaled(v, IntOf(Unsigned(e)))
             IN  Float([m |-> IF negative THEN 0 - w.m ELSE w.m, x |-> w.x])

Custom == <<"C", "u", "s", "t", "o", "m">>

\* `identifier` of the user's context, and whether it is there and not 0.
HasIdentifier(context) == "identifier" \in DOMAIN context /\ context.identifier # 0

HasSignalId(context) == "signal_id" \in DOMAIN context /\ context.signal_id # 0

\* InputHandler.handle_lot_input.  env.meta_trader tells whether the bot
\* has a MetaTrader connection, env.answer what MetaTrader does with the
\* request: it is done, it fails, or the call raises.
handle_lot_input(states, user_id, lot_text, env) ==
    LET context == GetOr(states[user_id], "context", <<>>)
        lots == python_float(lot_text)
        by == "handle_lot_input"
    IN  IF lot_text = Custom THEN Out(states, <<Reply("enter custom lot")>>, by)
        ELSE IF lots.k = "raise" THEN Out(states, <<Reply("invalid")>>, by)
        ELSE IF env.meta_trader /\ HasIdentifier(context)
        THEN LET request == Call("close_position", <<context.identifier, lots>>)
             IN  IF env.answer = "raise"
                 THEN Out(states, <<request, Reply("error")>>, by)
                 ELSE Out(SetState(states, user_id, "position_list"),
                          <<request, Reply(env.answer)>>, by)
        ELSE Out(SetState(states, user_id, "position_list"),
                 <<Reply("not available")>>, by)

\* handle_sl_input and handle_tp_input, which differ by the MetaTrader
\* method they call.
UpdateLevel(states, user_id, level_text, env, method, by) ==
    LET context == GetOr(states[user_id], "context", <<>>)
        level == python_float(level_text)
        next == IF HasSignalId(context) THEN "viewing_signal" ELSE "position_list"
    IN  IF level.k = "raise" THEN Out(states, <<Reply("invalid")>>, by)
        ELSE IF env.meta_trader /\ HasIdentifier(context)
        THEN LET request == Call(method, <<context.identifier, level>>)
             IN  IF env.answer = "raise"
                 THEN Out(states, <<request, Reply("error")>>, by)
                 ELSE Out(SetState(states, user_id, next),
                          <<request, Reply(env.answer)>>, by)
        ELSE Out(SetState(states, user_id, next), <<Reply("not available")>>, by)

handle_sl_input(states, user_id, sl_text, env) ==
    UpdateLevel(states, user_id, sl_text, env, "update_position_sl", "handle_sl_input")

handle_tp_input(states, user_id, tp_text, env) ==
    UpdateLevel(states, user_id, tp_text, env, "update_position_tp", "handle_tp_input")

\* handle_tester_input: the text is parsed and the result shown.
handle_tester_input(states, user_id, signal_text, env) ==
    Out(states, <<Reply(IF env.parsed THEN "parsed" ELSE "could not parse")>>,
        "handle_tester_input")

\* handle_trade_input: a text that parses is traded, and the state becomes
\* None unless the trade raised.
handle_trade_input(states, user_id, trade_text, env) ==
    LET by == "handle_trade_input"
    IN  IF ~env.parsed THEN Out(states, <<Reply("invalid format")>>, by)
        ELSE IF env.answer = "raise"
        THEN Out(states, <<Reply("opening"), Call("Trade", None), Call("edit_text", "failed")>>, by)
        ELSE Out(SetState(states, user_id, "None"),
                 <<Reply("opening"), Call("Trade", None), Call("edit_text", "opened")>>, by)

\* HandlerManager.handle_message
HandlerManager_handle_message(states, user_id, message_text, env) ==
    LET state == StateOf(states, user_id)
    IN  CASE state = "awaiting_lot" -> handle_lot_input(states, user_id, message_text, env)
          [] state = "awaiting_sl"  -> handle_sl_input(states, user_id, message_text, env)
          [] state = "awaiting_tp"  -> handle_tp_input(states, user_id, message_text, env)
          [] state = "awaiting_trade_input"
                                    -> handle_trade_input(states, user_id, message_text, env)
          [] state = "tester"       -> handle_tester_input(states, user_id, message_text, env)
          [] OTHER                  -> Out(states, <<Reply("menu")>>, "menu")

(***************************************************************************)
(* The users, the states their conversations are left in, and the texts    *)
(* they send.                                                              *)
(***************************************************************************)
Users == {1, 2}

Ticket == 7

SignalId == 3

\* The dicts the views and the actions leave in user_states.
WrittenStates ==
    {[state |-> "main_menu", context |-> <<>>],
     [state |-> "tester", context |-> <<>>],
     [state |-> "awaiting_trade_input", context |-> <<>>],
     [state |-> "viewing_position", context |-> [ticket |-> Ticket]],
     [state |-> "awaiting_lot", context |-> [ticket |-> Ticket, identifier |-> Ticket]],
     [state |-> "awaiting_sl",
      context |-> [ticket |-> Ticket, identifier |-> Ticket, signal_id |-> Ticket]],
     [state |-> "awaiting_tp",
      context |-> [signal_id |-> SignalId, identifier |-> Ticket]],
     [state |-> "None", context |-> <<>>],
     [context |-> <<>>]}

\* The texts of the messages: 0.5, 1, -1, 1e2, nan, inf, Custom, abc, 1,5
InputTexts ==
    {<<"0", ".", "5">>, <<"1">>, <<"-", "1">>, <<"1", "e", "2">>, NaN, <<"i", "n", "f">>,
     Custom, <<"a", "b", "c">>, <<"1", ",", "5">>}

BotEnvs == [meta_trader : BOOLEAN, answer : {"done", "failed", "raise"}, parsed : BOOLEAN]

InitInput ==
    /\ tables = ClassTables
    /\ input = None
    /\ op = "idle"
    /\ result = None
    /\ calls = <<>>
    /\ NoHandler /\ NoThreads
    /\ user_states \in UNION {[known -> WrittenStates] : known \in SUBSET Users}
    /\ 2 \in DOMAIN user_states => user_states[2] = [state |-> "main_menu", context |-> <<>>]
    /\ keyboard = <<>>
    /\ active_updates = <<>>
    /\ tasks = <<>>

\* A text message of a user reaches the bot.
HandleText ==
    \E user_id \in Users, message_text \in InputTexts, env \in BotEnvs :
       LET out == HandlerManager_handle_message(user_states, user_id, message_text, env)
       IN  /\ op' = "HandlerManager.handle_message"
           /\ event' = [user_id |-> user_id, text |-> message_text, env |-> env,
                        before |-> user_states]
           /\ result' = Str(out.by)
           /\ effects' = out.effects
           /\ user_states' = out.user_states
           /\ UNCHANGED <<tables, input, calls, config, threads,
                          keyboard, active_updates, tasks>>

NextInput == HandleText

SpecInput == InitInput /\ [][NextInput]_vars

(***************************************************************************)
(* Properties of the text input of the manager bot.                        *)
(***************************************************************************)
Awaiting == {"awaiting_lot", "awaiting_sl", "awaiting_tp"}

InputHandlerOf ==
    [awaiting_lot |-> "handle_lot_input", awaiting_sl |-> "handle_sl_input",
     awaiting_tp |-> "handle_tp_input", awaiting_trade_input |-> "handle_trade_input",
     tester |-> "handle_tester_input"]

MetaTraderCalls ==
    SelectSeq(effects, LAMBDA c : c.call \in {"close_position", "update_position_sl",
                                              "update_position_tp", "Trade"})

\* The text is a decimal numeral.
ValidNumber(text) == IsNumeral(Strip(text))

\* C24: a text message is handled by the input handler of the user's state
\* and by no handler in any other state (no MetaTrader call is made then);
\* in an awaiting_lot/sl/tp state a text that is not a number changes no
\* user state and makes no MetaTrader call, and a number leaves the state.
C24_InputByState ==
    op = "HandlerManager.handle_message" =>
       LET state == StateOf(event.before, event.user_id)
       IN  /\ state \in DOMAIN InputHandlerOf => result = Str(InputHandlerOf[state])
           /\ state \notin DOMAIN InputHandlerOf
                 => result = Str("menu") /\ Len(MetaTraderCalls) = 0
           /\ (state \in Awaiting /\ ~ValidNumber(event.text))
                 => user_states = event.before /\ Len(MetaTraderCalls) = 0
           /\ (state \in Awaiting /\ ValidNumber(event.text))
                 => StateOf(user_states, event.user_id) \notin Awaiting
\* The words of the callback data.
SIGNALS == <<"s", "i", "g", "n", "a", "l", "s">>

POSITIONS == <<"p", "o", "s", "i", "t", "i", "o", "n", "s">>

OPEN_TRADE == <<"o", "p", "e", "n", "_", "t", "r", "a", "d", "e">>

TESTER == <<"t", "e", "s", "t", "e", "r">>

TRADE == <<"t", "r", "a", "d", "e">>

HISTORY == <<"h", "i", "s", "t", "o", "r", "y">>

ANALYZE == <<"a", "n", "a", "l", "y", "z", "e">>

MENU == <<"m", "e", "n", "u">>

HISTORY_TODAY == <<"h", "i", "s", "t", "o", "r", "y", "_", "t", "o", "d", "a", "y">>

HISTORY_YESTERDAY == <<"h", "i", "s", "t", "o", "r", "y", "_", "y", "e", "s", "t", "e", "r", "d", "a", "y">>

HISTORY_CALENDAR == <<"h", "i", "s", "t", "o", "r", "y", "_", "c", "a", "l", "e", "n", "d", "a", "r">>

HISTORY_CALENDAR_RESET == <<"h", "i", "s", "t", "o", "r", "y", "_", "c", "a", "l", "e", "n", "d", "a", "r", "_", "r", "e", "s", "e", "t">>

HISTORY_CUSTOM_VIEW == <<"h", "i", "s", "t", "o", "r", "y", "_", "c", "u", "s", "t", "o", "m", "_", "v", "i", "e", "w">>

CAL_NOOP == <<"c", "a", "l", "_", "n", "o", "o", "p">>

CAL == <<"c", "a", "l">>

PREV == <<"p", "r", "e", "v">>

NEXT == <<"n", "e", "x", "t">>

DAY == <<"d", "a", "y">>

FROM == <<"f", "r", "o", "m">>

TO == <<"t", "o">>

CLOSE == <<"c", "l", "o", "s", "e">>

LOT == <<"l", "o", "t">>

SIGNAL == <<"s", "i", "g", "n", "a", "l">>

POSITION == <<"p", "o", "s", "i", "t", "i", "o", "n">>

MANAGE == <<"m", "a", "n", "a", "g", "e">>

OPEN == <<"o", "p", "e", "n">>

UPDATE == <<"u", "p", "d", "a", "t", "e">>

UPDATE_SL == <<"s", "l">>

UPDATE_TP == <<"t", "p">>

FULL == <<"f", "u", "l", "l">>

HALF == <<"h", "a", "l", "f">>

RISK_FREE == <<"r", "i", "s", "k", "_", "f", "r", "e", "e">>

(***************************************************************************)
(* Callback data.  The data of a button is a text; handle_callback takes   *)
(* it apart with split and int, the views and the actions put it together  *)
(* with f-strings.                                                         *)
(***************************************************************************)
\* text.split(c)
RECURSIVE Split(_, _)
Split(t, c) ==
    IF \A k \in DOMAIN t : t[k] # c THEN <<t>>
    ELSE LET k == CHOOSE i \in DOMAIN t : t[i] = c /\ \A j \in 1..(i - 1) : t[j] # c
         IN  <<SubSeq(t, 1, k - 1)>> \o Split(SubSeq(t, k + 1, Len(t)), c)

\* text.split(c, 1)
SplitOnce(t, c) ==
    IF \A k \in DOMAIN t : t[k] # c THEN <<t>>
    ELSE LET k == CHOOSE i \in DOMAIN t : t[i] = c /\ \A j \in 1..(i - 1) : t[j] # c
         IN  <<SubSeq(t, 1, k - 1), SubSeq(t, k + 1, Len(t))>>

\* c.join(parts)
RECURSIVE Join(_, _)
Join(parts, c) ==
    IF Len(parts) = 0 THEN <<>>
    ELSE IF Len(parts) = 1 THEN parts[1]
    ELSE parts[1] \o <<c>> \o Join(Tail(parts), c)

\* str(n) of a natural number
RECURSIVE StrOfNat(_)
StrOfNat(n) ==
    IF n < 10 THEN <<DIGITS[n + 1]>> ELSE StrOfNat(n \div 10) \o <<DIGITS[(n % 10) + 1]>>

\* int(text) of a str without underscores: the number, or ValueError.
python_int(text) ==
    LET t == Strip(text)
        u == Unsigned(t)
    IN  IF ~IsDigits(u) THEN Raise("ValueError")
        ELSE [k |-> "int", v |-> IF t[1] = "-" THEN 0 - IntOf(u) ELSE IntOf(u)]

\* f"{a}_{b}_..."
Underscored(parts) == Join(parts, "_")

(***************************************************************************)
(* The views of the history calendar (views.py) and the callbacks that     *)
(* lead to them (handlers.py).  A view is given the user states and the    *)
(* active updates and leaves them changed, with the calls it made and the  *)
(* buttons it put under the message.                                       *)
(***************************************************************************)
\* The message was edited and shows these buttons.
Shown(states, updates, made, buttons) ==
    [user_states |-> states, active_updates |-> updates, effects |-> made,
     edited |-> TRUE, buttons |-> buttons, spawned |-> <<>>]

\* The callback was answered (or failed) and the message left as it was.
Answered(states, updates, made) ==
    [user_states |-> states, active_updates |-> updates, effects |-> made,
     edited |-> FALSE, buttons |-> {}, spawned |-> <<>>]

\* _stop_auto_update
stop_auto_update(updates, user_id) ==
    IF user_id \in DOMAIN updates THEN Pop(updates, user_id) ELSE updates

\* if user_id not in self.user_states: ... = {}; if "context" not in ...: ... = {}
WithContext(states, user_id) ==
    LET known == IF user_id \in DOMAIN states THEN states ELSE Put(states, user_id, <<>>)
    IN  IF "context" \in DOMAIN known[user_id] THEN known
        ELSE Put(known, user_id, Put(known[user_id], "context", <<>>))

\* self.user_states[user_id]["context"][key] = value
SetContext(states, user_id, key, value) ==
    Put(states, user_id,
        Put(states[user_id], "context", Put(states[user_id].context, key, value)))

\* user_id in self.user_states and "context" in self.user_states[user_id]
HasContext(states, user_id) ==
    user_id \in DOMAIN states /\ "context" \in DOMAIN states[user_id]

\* datetime.now(), as far as the calendar goes.
Today == [year |-> 2025, month |-> 1]

\* The days of a month the user presses.
Days == {1, 15}

\* datetime(year, month, day)
Date(year, month, day) == [year |-> year, month |-> month, day |-> day]

\* calendar.monthrange(year, month)[1]
DaysInMonth(year, month) ==
    IF month \in {4, 6, 9, 11} THEN 30
    ELSE IF month # 2 THEN 31
    ELSE IF year % 4 = 0 /\ (year % 100 # 0 \/ year % 400 = 0) THEN 29
    ELSE 28

\* datetime(year, month, day) raises ValueError on a date that is none.
IsDate(year, month, day) ==
    year \in 1..9999 /\ month \in 1..12 /\ day \in 1..DaysInMonth(year, month)

\* a < b of two dates
Before(a, b) ==
    \/ a.year < b.year
    \/ a.year = b.year /\ a.month < b.month
    \/ a.year = b.year /\ a.month = b.month /\ a.day < b.day

MenuButtons ==
    {SIGNALS, POSITIONS, OPEN_TRADE, TESTER, TRADE, HISTORY}

HistoryMenuButtons == {HISTORY_TODAY, HISTORY_YESTERDAY, HISTORY_CALENDAR, MENU}

\* show_history_menu
show_history_menu(states, updates, user_id) ==
    Shown(Put(states, user_id, [state |-> "history_menu", context |-> <<>>]),
          stop_auto_update(updates, user_id),
          <<Call("edit_message_text", "Trade History")>>, HistoryMenuButtons)

\* The buttons of the calendar of a month in a mode.
CalendarButtons(year, month, mode, has_from, has_to) ==
    {Underscored(<<CAL, PREV, StrOfNat(year), StrOfNat(month), mode>>),
     Underscored(<<CAL, NEXT, StrOfNat(year), StrOfNat(month), mode>>),
     CAL_NOOP, HISTORY}
    \cup {Underscored(<<CAL, DAY, StrOfNat(year), StrOfNat(month), StrOfNat(day), mode>>) :
             day \in Days}
    \cup (IF has_from /\ has_to THEN {HISTORY_CUSTOM_VIEW, HISTORY_CALENDAR_RESET}
          ELSE IF has_from /\ mode = TO THEN {HISTORY_CALENDAR_RESET}
          ELSE {})

\* show_history_calendar(query, user_id, year, month, mode)
show_history_calendar(states, updates, user_id, year, month, mode) ==
    LET shown_year == IF year = 0 THEN Today.year ELSE year
        shown_month == IF month = 0 THEN Today.month ELSE month
        known == WithContext(states, user_id)
        named == SetState(known, user_id, "history_calendar")
        moded == SetContext(named, user_id, "calendar_mode", mode)
        yeared == SetContext(moded, user_id, "calendar_year", shown_year)
        monthed == SetContext(yeared, user_id, "calendar_month", shown_month)
        context == monthed[user_id].context
    IN  Shown(monthed, stop_auto_update(updates, user_id),
              <<Call("edit_message_text", <<shown_year, shown_month, mode>>)>>,
              CalendarButtons(shown_year, shown_month, mode,
                              "from_date" \in DOMAIN context, "to_date" \in DOMAIN context))

\* show_history_results when no trade is found in the period: the page is
\* set back to 0 (no range has been remembered), the message says so over
\* a Back button, and the range is not remembered.
show_history_results(states, updates, user_id, range_type, from_date, to_date) ==
    LET known == WithContext(states, user_id)
        paged == SetContext(known, user_id, "history_page", 0)
    IN  Shown(paged, stop_auto_update(updates, user_id),
              <<Call("edit_message_text", "Loading trading history"),
                Call("edit_message_text", "No trades found for this period")>>,
              {HISTORY})

AccountButtons == {SIGNALS, POSITIONS, OPEN_TRADE, TESTER, HISTORY, ANALYZE}

\* show_account_details_from_callback.  env.account tells whether
\* mt5.account_info() answers.
show_account_details_from_callback(states, updates, user_id, env) ==
    LET named == Put(states, user_id, [state |-> "main_menu", context |-> <<>>])
        stopped == stop_auto_update(updates, user_id)
    IN  IF ~env.meta_trader
        THEN Shown(named, stopped,
                   <<Call("edit_message_text", "MetaTrader not available")>>, {})
        ELSE IF ~env.account
        THEN Shown(named, stopped,
                   <<Call("edit_message_text", "Unable to fetch account info")>>, {})
        ELSE Shown(named, stopped,
                   <<Call("edit_message_text", "Account Overview")>>, AccountButtons)

\* except Exception as e: ... await query.answer(f"Error: {str(e)}")
CallbackError(states, updates, e) ==
    Answered(states, updates, <<Call("answer", e)>>)

\* cal_prev_{year}_{month}_{mode} and cal_next_{year}_{month}_{mode}
CalendarTurn(states, updates, user_id, parts, forward) ==
    IF Len(parts) < 4 THEN CallbackError(states, updates, Raise("IndexError"))
    ELSE LET year == python_int(parts[3])
             month == python_int(parts[4])
             mode == IF Len(parts) > 4 THEN parts[5] ELSE FROM
         IN  IF year.k = "raise" THEN CallbackError(states, updates, year)
             ELSE IF month.k = "raise" THEN CallbackError(states, updates, month)
             ELSE IF forward
             THEN IF month.v = 12
                  THEN show_history_calendar(states, updates, user_id, year.v + 1, 1, mode)
                  ELSE show_history_calendar(states, updates, user_id, year.v, month.v + 1, mode)
             ELSE IF month.v = 1
                  THEN show_history_calendar(states, updates, user_id, year.v - 1, 12, mode)
                  ELSE show_history_calendar(states, updates, user_id, year.v, month.v - 1, mode)

\* mode == "from": the selected date is stored as the start date.
StoreFrom(states, user_id, selected_date) ==
    SetContext(states, user_id, "from_date", selected_date)

\* cal_day_{year}_{month}_{day}_{mode}; the days of the buttons exist in
\* their month.
CalendarDay(states, updates, user_id, parts) ==
    IF Len(parts) < 5 THEN CallbackError(states, updates, Raise("IndexError"))
    ELSE LET year == python_int(parts[3])
             month == python_int(parts[4])
             day == python_int(parts[5])
             mode == IF Len(parts) > 5 THEN parts[6] ELSE FROM
         IN  IF year.k = "raise" THEN CallbackError(states, updates, year)
             ELSE IF month.k = "raise" THEN CallbackError(states, updates, month)
             ELSE IF day.k = "raise" THEN CallbackError(states, updates, day)
             ELSE IF ~IsDate(year.v, month.v, day.v)
             THEN CallbackError(states, updates, Raise("ValueError"))
             ELSE LET selected_date == Date(year.v, month.v, day.v)
                      known == WithContext(states, user_id)
                      context == known[user_id].context
                  IN  IF mode = FROM
                      THEN show_history_calendar(StoreFrom(known, user_id, selected_date),
                                                 updates, user_id, year.v, month.v, TO)
                      ELSE IF /\ "from_date" \in DOMAIN context
                              /\ Before(selected_date, context.from_date)
                      THEN LET view == show_history_calendar(known, updates, user_id,
                                                             year.v, month.v, TO)
                           IN  [view EXCEPT !.effects =
                                   <<Call("answer", "End date must be after start date")>> \o @]
                      ELSE show_history_calendar(
                               SetContext(known, user_id, "to_date", selected_date),
                               updates, user_id, year.v, month.v, TO)

\* The callbacks of the calendar: action == "cal"
Calendar(states, updates, user_id, parts) ==
    IF Len(parts) < 2 THEN Answered(states, updates, <<Call("answer", "Invalid calendar action")>>)
    ELSE IF parts[2] = PREV THEN CalendarTurn(states, updates, user_id, parts, FALSE)
    ELSE IF parts[2] = NEXT THEN CalendarTurn(states, updates, user_id, parts, TRUE)
    ELSE IF parts[2] = DAY THEN CalendarDay(states, updates, user_id, parts)
    ELSE Answered(states, updates, <<Call("answer", "Invalid calendar action")>>)

\* history_calendar_reset
CalendarReset(states, updates, user_id) ==
    LET cleared ==
            IF HasContext(states, user_id)
            THEN Put(states, user_id,
                     Put(states[user_id], "context",
                         Pop(Pop(states[user_id].context, "from_date"), "to_date")))
            ELSE states
    IN  show_history_calendar(cleared, updates, user_id, 0, 0, FROM)

\* history_custom_view
CustomView(states, updates, user_id) ==
    IF ~HasContext(states, user_id) THEN Answered(states, updates, <<>>)
    ELSE LET context == states[user_id].context
         IN  IF "from_date" \in DOMAIN context /\ "to_date" \in DOMAIN context
             THEN show_history_results(states, updates, user_id, "custom",
                                       context.from_date, context.to_date)
             ELSE Answered(states, updates,
                           <<Call("answer", "Please select both start and end dates")>>)

(***************************************************************************)
(* The close actions (actions.py).  env.meta_trader tells whether the bot  *)
(* has a MetaTrader connection, env.answer what MetaTrader does with a     *)
(* request (done, failed, or the call raises), env.volume the volume of    *)
(* the position in hundredths of a lot (0: there is no such position),     *)
(* env.linked whether the identifier is a signal with a linked position.   *)
(***************************************************************************)
BackToPositions == {POSITIONS}

\* The ticket of the position linked to a signal.
LinkedTicket(identifier) == identifier + 1

\* str(current) of a volume rounded to two decimals: "0.05", "0.1", "1.0"
StrOfLot(hundredths) ==
    StrOfNat(hundredths \div 100) \o <<".">> \o
    (IF hundredths % 10 = 0 THEN StrOfNat((hundredths % 100) \div 10)
     ELSE StrOfNat((hundredths % 100) \div 10) \o StrOfNat(hundredths % 10))

\* One request to MetaTrader inside a handler: the edits before it, the
\* request, and the edit that reports its answer.  An exception leaves the
\* progress message, which has no buttons, and is answered as an error.
Request(states, updates, before, request, env) ==
    IF env.answer = "raise"
    THEN Shown(states, updates,
               before \o <<request, Call("answer", Raise("Exception"))>>, {})
    ELSE Shown(states, updates,
               before \o <<request, Call("edit_message_text", env.answer)>>,
               BackToPositions)

NotAvailable(states, updates, before) ==
    Shown(states, updates,
          before \o <<Call("edit_message_text", "MetaTrader not available")>>,
          BackToPositions)

\* callback_data=f"close_lot_{identifier}_{current}"
LotButton(identifier, current) ==
    Underscored(<<CLOSE, LOT, StrOfNat(identifier), StrOfLot(current)>>)

\* The lot buttons: current_lot - 0.01 down to 0.01
LotButtons(identifier, volume) ==
    {LotButton(identifier, current) : current \in 1..(volume - 1)}

\* The button shown at minimum lot.
CloseButton(identifier) == Underscored(<<CLOSE, FULL, StrOfNat(identifier)>>)

\* ActionManager.handle_close_action
handle_close_action(states, updates, user_id, identifier, close_type, env) ==
    IF close_type = FULL
    THEN LET answered == <<Call("answer", "Closing position(s)...")>>
             waiting == answered \o <<Call("edit_message_text", "Closing")>>
         IN  IF ~env.meta_trader THEN NotAvailable(states, updates, answered)
             ELSE IF env.linked
             THEN Request(states, updates,
                          waiting \o <<Call("edit_message_text", "Processing")>>,
                          Call("close_position", <<LinkedTicket(identifier)>>), env)
             ELSE Request(states, updates, waiting,
                          Call("close_position", <<identifier>>), env)
    ELSE IF close_type = HALF
    THEN LET answered == <<Call("answer", "Closing half position...")>>
         IN  IF ~env.meta_trader THEN NotAvailable(states, updates, answered)
             ELSE Request(states, updates,
                          answered \o <<Call("edit_message_text", "Closing half")>>,
                          Call("close_half_position", <<identifier>>), env)
    ELSE IF close_type = RISK_FREE
    THEN LET answered == <<Call("answer", "Setting risk-free...")>>
         IN  IF ~env.meta_trader THEN NotAvailable(states, updates, answered)
             ELSE Shown(states, updates,
                        answered \o <<Call("edit_message_text", "Setting risk-free"),
                                      Call("save_profit_position", <<identifier, 0>>),
                                      Call("edit_message_text", env.answer)>>,
                        BackToPositions)
    ELSE IF close_type = LOT
    THEN IF ~env.meta_trader
         THEN Answered(states, updates, <<Call("answer", "MetaTrader not available")>>)
         ELSE IF env.volume = 0
         THEN Answered(states, updates,
                       <<Call("get_position_or_order", <<identifier>>),
                         Call("answer", "Position/Order not found")>>)
         ELSE IF env.volume <= 1
         THEN Shown(states, updates,
                    <<Call("get_position_or_order", <<identifier>>),
                      Call("edit_message_text", "Lot size is at minimum")>>,
                    {CloseButton(identifier)})
         ELSE IF user_id \notin DOMAIN states
         THEN Answered(states, updates,
                       <<Call("get_position_or_order", <<identifier>>),
                         Call("answer", Raise("KeyError"))>>)
         ELSE IF "context" \notin DOMAIN states[user_id]
         THEN Answered(SetState(states, user_id, "awaiting_lot"), updates,
                       <<Call("get_position_or_order", <<identifier>>),
                         Call("answer", Raise("KeyError"))>>)
         ELSE Shown(SetContext(SetState(states, user_id, "awaiting_lot"),
                               user_id, "identifier", identifier),
                    updates,
                    <<Call("get_position_or_order", <<identifier>>),
                      Call("edit_message_text", "Select lot size to close")>>,
                    LotButtons(identifier, env.volume) \cup BackToPositions)
    ELSE Answered(states, updates, <<>>)

\* ActionManager.handle_close_custom_lot
handle_close_custom_lot(states, updates, user_id, identifier, lot_size, env) ==
    LET answered == <<Call("answer", "Closing lots...")>>
    IN  IF ~env.meta_trader THEN NotAvailable(states, updates, answered)
        ELSE Shown(states, updates,
                   answered \o <<Call("edit_message_text", "Closing lots"),
                                 Call("close_position", <<identifier, lot_size>>),
                                 Call("edit_message_text", env.answer)>>,
                   BackToPositions)

(***************************************************************************)
(* The auto-updated views (views.py): the signal list, the position list   *)
(* and the account view of /start leave an entry in active_updates and     *)
(* create a task that sleeps and edits the message in turn.                *)
(* env.listed tells whether MetaTrader has positions linked to signals.    *)
(***************************************************************************)
\* asyncio.create_task(self._auto_update_...(user_id, ...)): the task runs
\* to its first sleep as soon as the handler yields.
Task(user_id, view) == [user_id |-> user_id, view |-> view]

\* self.active_updates[user_id] = {"state": ..., "message_id": ...,
\* "last_text": ..., "last_buttons": ...}: the model keeps the callbacks of
\* the last buttons.
Updating(updates, user_id, view, message, buttons) ==
    Put(updates, user_id,
        [state |-> view, message_id |-> message, last_buttons |-> buttons])

\* A view that edited the message and started its auto-update.
ShownUpdating(states, updates, made, buttons, user_id, view) ==
    [Shown(states, updates, made, buttons) EXCEPT !.spawned = <<Task(user_id, view)>>]

BackToMenu == {MENU}

SignalListButtons == {Underscored(<<SIGNAL, StrOfNat(SignalId)>>), MENU}

PositionListButtons == {Underscored(<<POSITION, StrOfNat(Ticket)>>), MENU}

\* show_signal_list
show_signal_list(states, updates, user_id, message, env) ==
    LET named == Put(states, user_id, [state |-> "signal_list", context |-> <<>>])
    IN  IF ~env.meta_trader
        THEN Shown(named, updates,
                   <<Call("edit_message_text", "MetaTrader connection not available")>>,
                   BackToMenu)
        ELSE IF ~env.listed
        THEN Shown(named, updates,
                   <<Call("edit_message_text", "No active positions or orders")>>,
                   BackToMenu)
        ELSE ShownUpdating(named, Updating(updates, user_id, "signal_list", message, SignalListButtons),
                           <<Call("edit_message_text", "Active Signals")>>,
                           SignalListButtons, user_id, "signal_list")

\* show_position_list
show_position_list(states, updates, user_id, message, env) ==
    LET named == Put(states, user_id, [state |-> "position_list", context |-> <<>>])
    IN  IF ~env.meta_trader
        THEN Shown(named, updates,
                   <<Call("edit_message_text", "MetaTrader connection not available")>>,
                   {})
        ELSE IF ~env.listed
        THEN Shown(named, updates,
                   <<Call("edit_message_text", "No open positions or pending orders")>>,
                   BackToMenu)
        ELSE ShownUpdating(named, Updating(updates, user_id, "position_list", message, PositionListButtons),
                           <<Call("edit_message_text", "Active Positions")>>,
                           PositionListButtons, user_id, "position_list")

\* The buttons under a signal without a second price.
SignalButtons(signal_id) ==
    {Underscored(<<CLOSE, StrOfNat(signal_id), FULL>>),
     Underscored(<<CLOSE, StrOfNat(signal_id), RISK_FREE>>),
     Underscored(<<UPDATE, StrOfNat(signal_id), UPDATE_SL>>),
     Underscored(<<UPDATE, StrOfNat(signal_id), UPDATE_TP>>),
     Underscored(<<MANAGE, StrOfNat(signal_id), OPEN>>),
     SIGNALS}

\* show_signal_detail
show_signal_detail(states, updates, user_id, signal_id, env) ==
    LET named == Put(states, user_id,
                     [state |-> "viewing_signal", context |-> [signal_id |-> signal_id]])
        stopped == stop_auto_update(updates, user_id)
    IN  IF ~env.listed
        THEN Shown(named, stopped, <<Call("edit_message_text", "Signal not found")>>,
                   {SIGNALS})
        ELSE Shown(named, stopped, <<Call("edit_message_text", "Signal")>>,
                   SignalButtons(signal_id))

\* The buttons under a position.
PositionButtons(ticket) ==
    {Underscored(<<CLOSE, StrOfNat(ticket), FULL>>),
     Underscored(<<CLOSE, StrOfNat(ticket), HALF>>),
     Underscored(<<CLOSE, StrOfNat(ticket), LOT>>),
     Underscored(<<CLOSE, StrOfNat(ticket), RISK_FREE>>),
     Underscored(<<UPDATE, StrOfNat(ticket), UPDATE_SL>>),
     Underscored(<<UPDATE, StrOfNat(ticket), UPDATE_TP>>),
     POSITIONS}

\* show_position_detail of a position MetaTrader knows.
show_position_detail(states, updates, user_id, ticket) ==
    Shown(Put(states, user_id,
              [state |-> "viewing_position", context |-> [ticket |-> ticket]]),
          stop_auto_update(updates, user_id),
          <<Call("get_position_by_ticket", <<ticket>>),
            Call("edit_message_text", "Position")>>,
          PositionButtons(ticket))

\* show_tester
show_tester(states, updates, user_id) ==
    Shown(Put(states, user_id, [state |-> "tester", context |-> <<>>]), updates,
          <<Call("edit_message_text", "Signal Tester")>>, BackToMenu)

\* show_trade_summary
show_trade_summary(states, updates, user_id, env) ==
    LET named == Put(states, user_id, [state |-> "main_menu", context |-> <<>>])
    IN  IF ~env.meta_trader
        THEN Shown(named, updates,
                   <<Call("edit_message_text", "MetaTrader not available")>>, {})
        ELSE IF ~env.account
        THEN Shown(named, updates,
                   <<Call("edit_message_text", "Unable to fetch account info")>>, {})
        ELSE Shown(named, updates,
                   <<Call("edit_message_text", "Trade Summary")>>, BackToMenu)

\* What a command leaves: the user states and the active updates, the
\* calls made, the buttons of the message the bot replied with, and the
\* tasks created.
Replied(states, updates, made, buttons, spawned) ==
    [user_states |-> states, active_updates |-> updates, effects |-> made,
     buttons |-> buttons, spawned |-> spawned]

\* show_account_details: the reply is a new message, with this id.
show_account_details(states, updates, user_id, message, env) ==
    LET named == Put(states, user_id, [state |-> "main_menu", context |-> <<>>])
    IN  IF ~env.meta_trader
        THEN Replied(named, updates, <<Reply("MetaTrader not available")>>, {}, <<>>)
        ELSE IF ~env.account
        THEN Replied(named, updates, <<Reply("Unable to fetch account info")>>, {}, <<>>)
        ELSE Replied(named, Updating(updates, user_id, "main_menu", message, AccountButtons),
                     <<Reply("Account Overview")>>, AccountButtons,
                     <<Task(user_id, "main_menu")>>)

\* HandlerManager.handle_start
handle_start(states, updates, user_id, message, env) ==
    show_account_details(Put(states, user_id, [state |-> "main_menu", context |-> <<>>]),
                         updates, user_id, message, env)

\* The buttons an auto-update puts under the message of a view.
UpdatedButtons(view, env) ==
    IF view = "main_menu" THEN {SIGNALS, POSITIONS, OPEN_TRADE, TESTER, HISTORY}
    ELSE IF ~env.listed THEN BackToMenu
    ELSE IF view = "signal_list" THEN SignalListButtons
    ELSE PositionListButtons

\* content_changed: the buttons differ from the last ones, or the text
\* does.  The text of a list without positions is always the same; the
\* account text carries the time.
content_changed(last, view, env) ==
    \/ last.last_buttons # UpdatedButtons(view, env)
    \/ (view = "main_menu" \/ env.listed) /\ env.changed

\* One turn of _auto_update_signal_list, _auto_update_position_list or
\* _auto_update_account_details after its sleep.  env.changed tells whether
\* what is listed differs from the last time, env.sent whether Telegram
\* takes the edit.  `alive` tells whether the task sleeps again.
auto_update(updates, task, env) ==
    LET user_id == task.user_id
        there == user_id \in DOMAIN updates /\ updates[user_id].state = task.view
        rest(now) == [active_updates |-> now, alive |-> TRUE, edited |-> FALSE,
                      message |-> 0, buttons |-> {}]
    IN  IF ~there THEN [rest(updates) EXCEPT !.alive = FALSE]
        ELSE IF ~env.meta_trader THEN rest(updates)
        ELSE IF task.view = "main_menu" /\ ~env.account THEN rest(updates)
        ELSE IF ~content_changed(updates[user_id], task.view, env) THEN rest(updates)
        ELSE IF env.sent
        THEN [rest([updates EXCEPT
                       ![user_id].last_buttons = UpdatedButtons(task.view, env)])
                 EXCEPT !.edited = TRUE,
                        !.message = updates[user_id].message_id,
                        !.buttons = UpdatedButtons(task.view, env)]
        ELSE [rest(Pop(updates, user_id)) EXCEPT !.alive = FALSE]

(***************************************************************************)
(* HandlerManager.handle_callback (handlers.py): the exact callbacks       *)
(* first, then the compound ones, taken apart at the underscores.          *)
(***************************************************************************)
\* What handle_callback did: the view or action it went to, with the
\* arguments, and what that left.
Routed(name, args, view) ==
    [user_states |-> view.user_states, active_updates |-> view.active_updates,
     effects |-> <<Call("answer", None)>> \o view.effects,
     edited |-> view.edited, buttons |-> view.buttons, spawned |-> view.spawned,
     to |-> Call(name, args)]

\* The callback went nowhere.
NotRouted(view) == Routed("None", None, view)

\* The callback went to a view when the view edited the message.
RoutedIfShown(name, view) ==
    IF view.edited THEN Routed(name, None, view) ELSE NotRouted(view)

\* close_lot_{identifier}-{lot_size}
CloseLot(states, updates, user_id, parts, env) ==
    LET identifier_lot == SplitOnce(parts[3], "-")
        invalid == NotRouted(Answered(states, updates,
                                      <<Call("answer", "Invalid lot format")>>))
    IN  IF Len(identifier_lot) < 2 THEN invalid
        ELSE LET identifier == python_int(identifier_lot[1])
                 lot_size == python_float(identifier_lot[2])
             IN  IF identifier.k = "raise" \/ lot_size.k = "raise" THEN invalid
                 ELSE Routed("handle_close_custom_lot", <<identifier.v, lot_size>>,
                             handle_close_custom_lot(states, updates, user_id,
                                                     identifier.v, lot_size, env))

\* close_{identifier}_{close_type}
Close(states, updates, user_id, parts, env) ==
    IF Len(parts) < 2
    THEN NotRouted(CallbackError(states, updates, Raise("IndexError")))
    ELSE LET identifier == python_int(parts[2])
             close_type == Join(SubSeq(parts, 3, Len(parts)), "_")
         IN  IF identifier.k = "raise"
             THEN NotRouted(CallbackError(states, updates, identifier))
             ELSE Routed("handle_close_action", <<identifier.v, close_type>>,
                         handle_close_action(states, updates, user_id,
                                             identifier.v, close_type, env))

\* The callbacks followed here; the other views and actions of the bot
\* (lists, details, tester, trade, history results and pages, updates,
\* deletions, analysis) are told apart by handle_callback in the same way.
Followed(callback_data) ==
    \/ callback_data \in {MENU, SIGNALS, POSITIONS, TESTER, TRADE, HISTORY,
                          HISTORY_CALENDAR, HISTORY_CALENDAR_RESET,
                          HISTORY_CUSTOM_VIEW, CAL_NOOP}
    \/ Split(callback_data, "_")[1] \in {SIGNAL, POSITION, CLOSE, CAL}

\* signal_{signal_id}
Signal(states, updates, user_id, parts, env) ==
    IF Len(parts) < 2
    THEN NotRouted(CallbackError(states, updates, Raise("IndexError")))
    ELSE LET signal_id == python_int(parts[2])
         IN  IF signal_id.k = "raise"
             THEN NotRouted(CallbackError(states, updates, signal_id))
             ELSE Routed("show_signal_detail", <<signal_id.v>>,
                         show_signal_detail(states, updates, user_id, signal_id.v, env))

\* position_{ticket}
Position(states, updates, user_id, parts) ==
    IF Len(parts) < 2
    THEN NotRouted(CallbackError(states, updates, Raise("IndexError")))
    ELSE LET ticket == python_int(parts[2])
         IN  IF ticket.k = "raise"
             THEN NotRouted(CallbackError(states, updates, ticket))
             ELSE Routed("show_position_detail", <<ticket.v>>,
                         show_position_detail(states, updates, user_id, ticket.v))

\* `message` is the message the pressed button is under.
handle_callback(states, updates, user_id, message, callback_data, env) ==
    IF callback_data = MENU
    THEN Routed("show_account_details_from_callback", None,
                show_account_details_from_callback(states, updates, user_id, env))
    ELSE IF callback_data = SIGNALS
    THEN Routed("show_signal_list", None,
                show_signal_list(states, updates, user_id, message, env))
    ELSE IF callback_data = POSITIONS
    THEN Routed("show_position_list", None,
                show_position_list(states, updates, user_id, message, env))
    ELSE IF callback_data = TESTER
    THEN Routed("show_tester", None, show_tester(states, updates, user_id))
    ELSE IF callback_data = TRADE
    THEN Routed("show_trade_summary", None,
                show_trade_summary(states, updates, user_id, env))
    ELSE IF callback_data = HISTORY
    THEN Routed("show_history_menu", None, show_history_menu(states, updates, user_id))
    ELSE IF callback_data = HISTORY_CALENDAR
    THEN Routed("show_history_calendar", None,
                show_history_calendar(states, updates, user_id, 0, 0, FROM))
    ELSE IF callback_data = HISTORY_CALENDAR_RESET
    THEN Routed("show_history_calendar", None, CalendarReset(states, updates, user_id))
    ELSE IF callback_data = HISTORY_CUSTOM_VIEW
    THEN RoutedIfShown("show_history_results", CustomView(states, updates, user_id))
    ELSE IF callback_data = CAL_NOOP
    THEN NotRouted(Answered(states, updates, <<Call("answer", None)>>))
    ELSE LET parts == Split(callback_data, "_")
             action == parts[1]
         IN  IF Len(parts) >= 3 /\ parts[1] = CLOSE /\ parts[2] = LOT
             THEN CloseLot(states, updates, user_id, parts, env)
             ELSE IF action = SIGNAL THEN Signal(states, updates, user_id, parts, env)
             ELSE IF action = POSITION THEN Position(states, updates, user_id, parts)
             ELSE IF action = CLOSE THEN Close(states, updates, user_id, parts, env)
             ELSE IF action = CAL
             THEN RoutedIfShown("show_history_calendar",
                                Calendar(states, updates, user_id, parts))
             ELSE NotRouted(Answered(states, updates,
                                     <<Call("answer", "Unknown action")>>))

(***************************************************************************)
(* The history calendar: a user writes to the bot, which answers each text *)
(* with a new menu message, and presses the buttons under the messages     *)
(* they have got, the older ones as well.                                  *)
(***************************************************************************)
\* The messages with buttons a behaviour follows.
MaxMessages == 2

\* The months a behaviour scrolls back from today's.
MaxScroll == 1

CalendarUser == 1

\* The calendar asks nothing of MetaTrader: a bot with a connection.
CalendarEnv ==
    [meta_trader |-> TRUE, account |-> TRUE, answer |-> "done", volume |-> 0,
     linked |-> FALSE, parsed |-> FALSE, listed |-> FALSE]

\* The callbacks of the history menu and of the calendar.
CalendarCallback(callback_data) ==
    \/ callback_data \in {HISTORY, HISTORY_CALENDAR, HISTORY_CALENDAR_RESET,
                          HISTORY_CUSTOM_VIEW, CAL_NOOP}
    \/ Split(callback_data, "_")[1] = CAL

InitCalendar ==
    /\ tables = ClassTables
    /\ input = None
    /\ op = "idle"
    /\ result = None
    /\ calls = <<>>
    /\ NoHandler /\ NoThreads /\ NoBot

\* The calendar the user's context is on, in months from today's.
Scrolled(states, user_id) ==
    LET context == GetOr(GetOr(states, user_id, <<>>), "context", <<>>)
    IN  IF "calendar_year" \in DOMAIN context
        THEN (context.calendar_year - Today.year) * 12
                 + context.calendar_month - Today.month
        ELSE 0

\* The message with these buttons, after the handler is through with it.
Pressed(buttons, message, out) ==
    IF out.edited THEN [buttons EXCEPT ![message] = out.buttons] ELSE buttons

\* A text that is no input to anything reaches the bot: handle_message
\* replies with the menu in a new message.
SendText ==
    /\ Len(keyboard) < MaxMessages
    /\ \E out \in {HandlerManager_handle_message(user_states, CalendarUser,
                                                 <<"h", "i">>, CalendarEnv)} :
          /\ out.by = "menu"
          /\ op' = "HandlerManager.handle_message"
          /\ event' = [user_id |-> CalendarUser, message |-> Len(keyboard) + 1]
          /\ result' = Str(out.by)
          /\ effects' = out.effects
          /\ user_states' = out.user_states
          /\ keyboard' = Append(keyboard, MenuButtons)
    /\ UNCHANGED <<tables, input, calls, config, threads, active_updates, tasks>>

\* The user presses a button of the history menu or of the calendar under
\* one of the messages.
PressCalendar ==
    \E message \in DOMAIN keyboard :
       \E callback_data \in {b \in keyboard[message] : CalendarCallback(b)} :
          \E out \in {handle_callback(user_states, active_updates, CalendarUser,
                                      message, callback_data, CalendarEnv)} :
             /\ Scrolled(out.user_states, CalendarUser) \in (0 - MaxScroll)..0
             /\ op' = "HandlerManager.handle_callback"
             /\ event' = [user_id |-> CalendarUser, message |-> message]
             /\ result' = out.to
             /\ effects' = out.effects
             /\ user_states' = out.user_states
             /\ active_updates' = out.active_updates
             /\ keyboard' = Pressed(keyboard, message, out)
             /\ UNCHANGED <<tables, input, calls, config, threads, tasks>>

NextCalendar == SendText \/ PressCalendar

SpecCalendar == InitCalendar /\ [][NextCalendar]_vars

(***************************************************************************)
(* Properties of the history calendar.                                     *)
(***************************************************************************)
ContextOf(user_id) == GetOr(GetOr(user_states, user_id, <<>>), "context", <<>>)

\* C25: in a user's history-calendar context the end date is never before
\* the start date: whenever both from_date and to_date are set,
\* from_date <= to_date.
C25_FromNotAfterTo ==
    \A user_id \in DOMAIN user_states :
       LET context == ContextOf(user_id)
       IN  ("from_date" \in DOMAIN context /\ "to_date" \in DOMAIN context)
              => ~Before(context.to_date, context.from_date)

(***************************************************************************)
(* Closing a position from its detail view: the user looks at a position   *)
(* and presses the close buttons under the message, and then the buttons   *)
(* the close action puts there.                                            *)
(***************************************************************************)
\* The largest volume of a position, in hundredths of a lot.
MaxLot == 4

Tickets == {7, 12}

CloseUser == 1

\* What MetaTrader answers to a close action.
CloseEnvs ==
    [meta_trader : BOOLEAN, account : {TRUE}, answer : {"done", "failed", "raise"},
     volume : 0..MaxLot, linked : BOOLEAN, parsed : {FALSE}, listed : {TRUE}]

\* The callbacks that close.
CloseCallback(callback_data) == Split(callback_data, "_")[1] = CLOSE

\* The user looks at a position.
InitClose ==
    /\ tables = ClassTables
    /\ input = None
    /\ op = "idle"
    /\ result = None
    /\ calls = <<>>
    /\ NoHandler /\ NoThreads
    /\ \E ticket \in Tickets :
          LET view == show_position_detail(<<>>, <<>>, CloseUser, ticket)
          IN  /\ user_states = view.user_states
              /\ active_updates = view.active_updates
              /\ keyboard = <<view.buttons>>
    /\ tasks = <<>>

\* The user presses a close button under the message.
PressClose ==
    \E message \in DOMAIN keyboard :
       \E callback_data \in {b \in keyboard[message] : CloseCallback(b)},
          env \in CloseEnvs :
          \E out \in {handle_callback(user_states, active_updates, CloseUser,
                                      message, callback_data, env)} :
             /\ op' = "HandlerManager.handle_callback"
             /\ event' = [user_id |-> CloseUser, message |-> message,
                          callback_data |-> callback_data, env |-> env]
             /\ result' = out.to
             /\ effects' = out.effects
             /\ user_states' = out.user_states
             /\ active_updates' = out.active_updates
             /\ keyboard' = Pressed(keyboard, message, out)
             /\ UNCHANGED <<tables, input, calls, config, threads, tasks>>

NextClose == PressClose

SpecClose == InitClose /\ [][NextClose]_vars

(***************************************************************************)
(* Properties of the close buttons.                                        *)
(***************************************************************************)
\* C26: every callback_data that handle_close_action puts on a button is
\* accepted by handle_callback and dispatched to the intended close
\* operation: a lot button to handle_close_custom_lot with the ticket and
\* the lot size of the button, the Close Position button shown at minimum
\* lot to the full close of the ticket.
C26_ButtonsDispatched ==
    op = "HandlerManager.handle_callback" =>
       \A identifier \in Tickets :
          /\ \A current \in 1..MaxLot :
                event.callback_data = LotButton(identifier, current)
                   => /\ result.call = "handle_close_custom_lot"
                      /\ result.args[1] = identifier
                      /\ SameNumber(result.args[2].v, [m |-> current, x |-> 2])
          /\ event.callback_data = CloseButton(identifier)
                => /\ result.call = "handle_close_action"
                   /\ result.args[1] = identifier
                   /\ result.args[2] = FULL

(***************************************************************************)
(* The auto-updated views: a user sends /start and presses the buttons of  *)
(* the views under the messages, while the auto-update tasks wake from     *)
(* their sleep in any order.                                               *)
(***************************************************************************)
\* The auto-update tasks alive at a time.
MaxTasks == 2

ViewUser == 1

\* What MetaTrader holds when a view is shown.
ViewEnvs ==
    [meta_trader : {TRUE}, account : {TRUE}, answer : {"done"}, volume : {1},
     linked : {FALSE}, parsed : {FALSE}, listed : BOOLEAN]

\* What a task finds when it wakes.
WakeEnvs ==
    [meta_trader : {TRUE}, account : {TRUE}, listed : BOOLEAN, changed : BOOLEAN,
     sent : BOOLEAN]

\* The callbacks that show a view.
ViewCallback(callback_data) ==
    \/ callback_data \in {MENU, SIGNALS, POSITIONS, TESTER, TRADE}
    \/ Split(callback_data, "_")[1] \in {SIGNAL, POSITION}

InitViews ==
    /\ tables = ClassTables
    /\ input = None
    /\ op = "idle"
    /\ result = None
    /\ calls = <<>>
    /\ NoHandler /\ NoThreads /\ NoBot

\* The sequence without its i-th element.
Without(seq, i) == SubSeq(seq, 1, i - 1) \o SubSeq(seq, i + 1, Len(seq))

\* /start: the account view in a new message.
HandleStart ==
    /\ Len(keyboard) < MaxMessages
    /\ \E env \in ViewEnvs :
          \E out \in {handle_start(user_states, active_updates, ViewUser,
                                   Len(keyboard) + 1, env)} :
             /\ Len(tasks) + Len(out.spawned) <= MaxTasks
             /\ op' = "HandlerManager.handle_start"
             /\ event' = [user_id |-> ViewUser, message |-> Len(keyboard) + 1,
                          callback_data |-> <<>>, env |-> env,
                          view |-> "None", edited |-> FALSE]
             /\ result' = None
             /\ effects' = out.effects
             /\ user_states' = out.user_states
             /\ active_updates' = out.active_updates
             /\ keyboard' = Append(keyboard, out.buttons)
             /\ tasks' = tasks \o out.spawned
    /\ UNCHANGED <<tables, input, calls, config, threads>>

\* The user presses a button that shows a view.
PressView ==
    \E message \in DOMAIN keyboard :
       \E callback_data \in {b \in keyboard[message] : ViewCallback(b)},
          env \in ViewEnvs :
          \E out \in {handle_callback(user_states, active_updates, ViewUser,
                                      message, callback_data, env)} :
             /\ Len(tasks) + Len(out.spawned) <= MaxTasks
             /\ op' = "HandlerManager.handle_callback"
             /\ event' = [user_id |-> ViewUser, message |-> message,
                          callback_data |-> callback_data, env |-> env,
                          view |-> "None", edited |-> FALSE]
             /\ result' = out.to
             /\ effects' = out.effects
             /\ user_states' = out.user_states
             /\ active_updates' = out.active_updates
             /\ keyboard' = Pressed(keyboard, message, out)
             /\ tasks' = tasks \o out.spawned
             /\ UNCHANGED <<tables, input, calls, config, threads>>

\* The sleep of an auto-update task is over.
WakeTask ==
    \E i \in DOMAIN tasks, env \in WakeEnvs :
       \E out \in {auto_update(active_updates, tasks[i], env)} :
          /\ op' = "ViewManager._auto_update"
          /\ event' = [user_id |-> tasks[i].user_id, message |-> out.message,
                       callback_data |-> <<>>, env |-> env,
                       view |-> tasks[i].view, edited |-> out.edited]
          /\ result' = None
          /\ effects' = IF out.edited
                        THEN <<Call("bot.edit_message_text", out.message)>> ELSE <<>>
          /\ active_updates' = out.active_updates
          /\ keyboard' = IF out.edited
                         THEN [keyboard EXCEPT ![out.message] = out.buttons]
                         ELSE keyboard
          /\ tasks' = IF out.alive THEN tasks ELSE Without(tasks, i)
          /\ UNCHANGED <<tables, input, calls, config, threads, user_states>>

NextViews == HandleStart \/ PressView \/ WakeTask

SpecViews == InitViews /\ [][NextViews]_vars

(***************************************************************************)
(* Properties of the auto-updated views.                                   *)
(***************************************************************************)
\* The loops of a user that go on: the tasks whose view is the one
\* active_updates holds for the user.
RunningLoops(user_id) ==
    {i \in DOMAIN tasks :
        /\ tasks[i].user_id = user_id
        /\ user_id \in DOMAIN active_updates
        /\ active_updates[user_id].state = tasks[i].view}

\* C27: for each user at most one auto-update loop is running at any time,
\* and once the user has navigated to another view no auto-update loop
\* edits the user's message any more: a loop that edits is the loop of the
\* view the user is on.
C27_OneLoopOnItsView ==
    /\ \A user_id \in Users : Cardinality(RunningLoops(user_id)) <= 1
    /\ (op = "ViewManager._auto_update" /\ event.edited)
          => StateOf(user_states, event.user_id) = event.view

====
